---- MODULE Spec2Model ----
(***************************************************************************)
(* A model of bright: the replicated command log and its FSM, the index    *)
(* store the FSM drives, the HTTP document/index handlers, and the         *)
(* PostgreSQL ingress delivery path.                                       *)
(***************************************************************************)
EXTENDS Integers, Sequences, FiniteSets, TLC

(***************************************************************************)
(* Bounds and small input sets.                                            *)
(***************************************************************************)
MaxLog == 2
MaxEntries == 3

Nodes == {"n1", "n2"}
IndexIds == {"x"}
Null == "null"
Vals == {"a", "b"}
UUIDs == {"u"}
DocIDs == {"a", "b"} \cup UUIDs
Attrs == {"id", "val"}

\* A document is a map attribute -> value; Null stands for an absent or nil value.
Doc(i, v) == [id |-> i, val |-> v]
\* The request bodies and ingress batches the model feeds in.
Batches == {<<Doc("a", "a")>>, <<Doc(Null, "b")>>, <<Doc("a", "a"), Doc(Null, "b")>>}
PrimaryKeys == {"id"}
\* The primaryKey query parameter of POST /indexes/:id/documents ("": not given).
QueryKeys == {"", "id", "val"}
Filters == {"val:b"}

\* Absent entries of the maps: no document, no config, no directory, no snapshot.
NoDoc == Doc("nodoc", "nodoc")
NoConfig == [id |-> "", primaryKey |-> "", excludeAttributes |-> {}]
EmptyDocs == [d \in DocIDs |-> NoDoc]
NoDir == [exists |-> FALSE, docs |-> EmptyDocs]
EmptyDir == [exists |-> TRUE, docs |-> EmptyDocs]
NoConfigs == [i \in IndexIds |-> NoConfig]

\* The JSON of one IndexConfig: excludeAttributes has the tag omitempty.
NoJSON == [id |-> "", primaryKey |-> "", omitted |-> TRUE, excludeAttributes |-> {}]
NoSnap == [idx |-> 0, configs |-> [i \in IndexIds |-> NoJSON]]

VARIABLES
    cfg,        \* deployment: [clustered, autoCreate] (config.Config, RaftNode != nil)
    leader,     \* the node whose raft.State() is Leader
    log,        \* the committed replicated log (sequence of Command)
    applied,    \* per node: number of log entries its FSM has applied
    store,      \* per node: the IndexStore (memory and disk)
    snap,       \* per node: the latest snapshot in its snapshot store
    snapPending,\* per node: log index of a snapshot begun and not yet persisted, or -1
    acked,      \* the log indexes for which RaftNode.Apply returned nil to its caller
    mu,         \* the store-wide RWMutex: [writer, readers, pending]
    opened,     \* the keys of s.indexes as the concurrent callers see them
    lockMap,    \* s.indexLocks: index id -> lock object (0: no entry)
    held,       \* per lock object: the thread holding it, or "none"
    thread,     \* per thread: [pc, op, id, lk], its position in a store operation
    now,        \* the clock of the database and of the poller
    updatedAt,  \* per source row: its updated_at column
    live,       \* per source row: whether it is in the source table
    deletedAt,  \* per source row: deleted_at of its entry in the deletes table (0: none)
    indexed,    \* per source row: updated_at of its document in the index (-1: none)
    lastSyncAt, \* Poller.lastSyncAt
    pollPc,     \* the poller's position in incrementalSync
    changes,    \* number of changes made to the source table
    syncMode,   \* Config.SyncMode of the ingress: "polling" or "listen"
    unmapped,   \* the source rows fetchBatch cannot turn into a document
    status,     \* Ingress.status
    ctxDone,    \* whether Ingress.ctx has been cancelled
    iMu,        \* the call that holds Ingress.mu across steps: "none", "Start", "Stop"
    pool,       \* whether the connector's pool is open
    pollLoop,   \* the position of the pollLoop goroutine
    fullSyncComplete, \* Poller.fullSyncComplete
    lastID,     \* Poller.lastID (0: the empty string)
    fetched,    \* the documents of the batch fetchBatch returned last
    statsFullSyncComplete, \* Ingress.stats.fullSyncComplete
    cursorRow,  \* full_sync_complete of the row in __bright_synchronization, or "none"
    table,      \* the rows in the source table, by primary key
    stable,     \* the rows in the table ever since the current full sync began
    delivered,  \* the rows handed to onDocuments since the current full sync began
    resyncPending, \* Resync was called and no full sync has begun from the start since
    listenLoop, \* whether the listener's listenLoop goroutine runs
    batchProcessor, \* whether the listener's batchProcessor goroutine runs
    pendingOps, \* len(Listener.pendingOps)
    inflight,   \* number of goroutines processBatchLocked started that still run
    orphans,    \* goroutines of an earlier Start that still run: [pollLoops, listeners]
    failedConnects, \* the failed Connector.Connect calls since Connect last succeeded
    peers,      \* RaftConfig.Peers
    advertiseAddr, \* the address the node advertises (RaftAdvertise, else RaftBind)
    joiner,     \* the position of the auto-join goroutine of NewRaftNode
    attempt,    \* the attempt the auto-join loop is in
    peerIdx,    \* the position in Peers of the next peer of this attempt
    rpcs,       \* the addresses ClusterJoin has been sent to
    queue,      \* Listener.pendingOps: the notifications of the batch being filled
    workers,    \* the goroutines processBatchLocked started: [ops, fetched, doc]
    received,   \* the notifications listenLoop has received
    handled,    \* the notifications for which onNotify returned nil: [note, delivered]
    known,      \* per node: the leader address raft.LeaderWithID() returns
    path,       \* the nodes whose handlers have the forwarded request, in order
    reply       \* the status code the client has got (0: none yet)

clusterVars == <<cfg, leader, log, applied, store, snap, snapPending, acked>>
lockVars == <<mu, opened, lockMap, held, thread>>
pollVars == <<now, updatedAt, live, deletedAt, indexed, lastSyncAt, pollPc, changes>>
ingVars == <<syncMode, unmapped, status, ctxDone, iMu, pool, pollLoop, fullSyncComplete,
             lastID, fetched, statsFullSyncComplete, cursorRow, table, stable, delivered,
             resyncPending, listenLoop, batchProcessor, pendingOps, inflight, orphans,
             failedConnects>>
joinVars == <<peers, advertiseAddr, joiner, attempt, peerIdx, rpcs>>
notifyVars == <<queue, workers, received, handled>>
fwdVars == <<known, path, reply>>
svcVars == <<notifyVars, fwdVars>>
vars == <<clusterVars, lockVars, pollVars, ingVars, joinVars, svcVars>>

\* An IndexConfig written without its primaryKey field.
MarshalConfigWithoutKey(config) ==
    [id |-> config.id, primaryKey |-> "",
     omitted |-> config.excludeAttributes = {},
     excludeAttributes |-> config.excludeAttributes]

\* sonic.Marshal of an IndexConfig: the fields by their json tags, excludeAttributes
\* left out when it is empty.
MarshalConfig(config) ==
    [id |-> config.id, primaryKey |-> config.primaryKey,
     omitted |-> config.excludeAttributes = {},
     excludeAttributes |-> config.excludeAttributes]

\* sonic.Marshal of the config map: an object with one member per key of the map.
Marshal(configs) ==
    [i \in IndexIds |-> IF configs[i] = NoConfig THEN NoJSON ELSE MarshalConfig(configs[i])]

\* os.WriteFile(configFile, data): configs.json with the whole of data; and the file
\* as a crash in the middle of WriteFile leaves it, truncated or written in part.
WriteFile(data) == [torn |-> FALSE, data |-> data]
TornFile == [torn |-> TRUE, data |-> Marshal(NoConfigs)]

(***************************************************************************)
(* The index store.  st.indexes are the open engine handles, st.configs    *)
(* the in-memory config map, st.indexLocks the per-index lock map,         *)
(* st.disk the per-index engine directories and st.configFile configs.json.*)
(***************************************************************************)
EmptyStore ==
    [indexes |-> {}, configs |-> NoConfigs, indexLocks |-> {},
     disk |-> [i \in IndexIds |-> NoDir], configFile |-> WriteFile(Marshal(NoConfigs))]

Ok(st) == [st |-> st, err |-> "ok"]
Err(st, e) == [st |-> st, err |-> e]

\* sonic MarshalIndent of s.configs, then os.WriteFile.
saveConfigs(st) == [st EXCEPT !.configFile = WriteFile(Marshal(st.configs))]

\* An existing directory is opened as it is; a missing one is created empty.
CreateIndexInternal(st, config) ==
    IF config.id \in st.indexes THEN Err(st, "already exists")
    ELSE Ok(saveConfigs(
            [st EXCEPT !.indexes = @ \cup {config.id},
                       !.configs[config.id] = config,
                       !.indexLocks = @ \cup {config.id},
                       !.disk[config.id] = IF @.exists THEN @ ELSE EmptyDir]))

DeleteIndexInternal(st, id) ==
    IF id \notin st.indexes THEN Err(st, "not found")
    ELSE Ok(saveConfigs(
            [st EXCEPT !.indexes = @ \ {id},
                       !.configs[id] = NoConfig,
                       !.indexLocks = @ \ {id},
                       !.disk[id] = NoDir]))

UpdateIndexInternal(st, id, config) ==
    IF id \notin st.indexes THEN Err(st, "not found")
    ELSE Ok(saveConfigs([st EXCEPT !.configs[id] = [config EXCEPT !.id = id]]))

getIndexLock(st, id) == [st EXCEPT !.indexLocks = @ \cup {id}]

\* A batch that inserts: a document whose id is taken is stored under another id.
RECURSIVE IndexBatchInserting(_, _, _)
IndexBatchInserting(dm, docs, pk) ==
    IF docs = <<>> THEN dm
    ELSE LET id == Head(docs)[pk]
             at == IF dm[id] = NoDoc THEN id ELSE "u"
         IN  IndexBatchInserting([dm EXCEPT ![at] = Head(docs)], Tail(docs), pk)

RECURSIVE IndexBatch(_, _, _)
IndexBatch(dm, docs, pk) ==
    IF docs = <<>> THEN dm
    ELSE IndexBatch([dm EXCEPT ![Head(docs)[pk]] = Head(docs)], Tail(docs), pk)

\* Documents indexed one by one, up to the first without a primary key.
RECURSIVE IndexEach(_, _, _)
IndexEach(dm, docs, pk) ==
    IF docs = <<>> \/ Head(docs)[pk] = Null THEN dm
    ELSE IndexEach([dm EXCEPT ![Head(docs)[pk]] = Head(docs)], Tail(docs), pk)

\* AddDocumentsInternal writing each document as the loop reaches it, without a batch.
AddDocumentsUnbatched(st, id, docs) ==
    IF id \notin st.indexes THEN Err(st, "not found")
    ELSE LET locked == getIndexLock(st, id)
             config == st.configs[id]
         IN  IF docs = <<>> THEN Ok(locked)
             ELSE IF config = NoConfig THEN Err(locked, "panic")
             ELSE IF \E k \in 1..Len(docs) : docs[k][config.primaryKey] = Null
                  THEN Err([locked EXCEPT
                              !.disk[id].docs = IndexEach(@, docs, config.primaryKey)],
                           "missing primary key")
             ELSE Ok([locked EXCEPT
                        !.disk[id].docs = IndexBatch(@, docs, config.primaryKey)])

\* A nil config (a handle without a config) is dereferenced in the loop: a panic.
AddDocumentsInternal(st, id, docs) ==
    IF id \notin st.indexes THEN Err(st, "not found")
    ELSE LET locked == getIndexLock(st, id)
             config == st.configs[id]
         IN  IF docs = <<>> THEN Ok(locked)
             ELSE IF config = NoConfig THEN Err(locked, "panic")
             ELSE IF \E k \in 1..Len(docs) : docs[k][config.primaryKey] = Null
                  THEN Err(locked, "missing primary key")
             ELSE Ok([locked EXCEPT
                        !.disk[id].docs = IndexBatch(@, docs, config.primaryKey)])

\* DeleteDocumentInternal without the index.Delete call.
DeleteDocumentInternalKeeping(st, id, documentID) ==
    IF id \notin st.indexes THEN Err(st, "not found")
    ELSE Ok(getIndexLock(st, id))

DeleteDocumentInternal(st, id, documentID) ==
    IF id \notin st.indexes THEN Err(st, "not found")
    ELSE Ok([getIndexLock(st, id) EXCEPT !.disk[id].docs[documentID] = NoDoc])

\* The query-string filter "val:v" matches the documents whose val is v.
Matches(filter, doc) ==
    /\ doc # NoDoc
    /\ \/ filter = "val:a" /\ doc.val = "a"
       \/ filter = "val:b" /\ doc.val = "b"

\* The page size of a search for documents to delete: 10000 in the code, scaled to
\* the model's document set.
PageSize == 1

\* The engine ranks the hits of a search in an order of its own that does not change
\* while the index does not.
HitOrder == <<"a", "b", "u">>

RECURSIVE Select(_, _, _)
Select(order, dm, filter) ==
    IF order = <<>> THEN <<>>
    ELSE IF Matches(filter, dm[Head(order)])
         THEN <<Head(order)>> \o Select(Tail(order), dm, filter)
         ELSE Select(Tail(order), dm, filter)

\* index.Search with From = from and Size = size: the ids of one page of hits.
Search(dm, filter, from, size) ==
    LET hits == Select(HitOrder, dm, filter) IN
    {hits[k] : k \in {j \in 1..Len(hits) : from < j /\ j <= from + size}}

\* The loop of DeleteDocumentsInternal over the pages, from offset on: the ids it
\* puts in the batch.
RECURSIVE SearchPages(_, _, _)
SearchPages(dm, filter, offset) ==
    LET page == Search(dm, filter, offset, PageSize) IN
    IF page = {} THEN {}
    ELSE IF Cardinality(page) < PageSize THEN page
    ELSE page \cup SearchPages(dm, filter, offset + PageSize)

DeleteIds(dm, ids) == [d \in DocIDs |-> IF d \in ids THEN NoDoc ELSE dm[d]]
\* DeleteDocumentsInternal with a filter: every page goes into the batch.
DeleteMatching(dm, filter) == DeleteIds(dm, SearchPages(dm, filter, 0))
\* The handler DeleteDocuments with a filter: one search of Size PageSize.
DeleteFirstPage(dm, filter) == DeleteIds(dm, Search(dm, filter, 0, PageSize))

DeleteDocumentsInternal(st, id, filter, ids) ==
    IF id \notin st.indexes THEN Err(st, "not found")
    ELSE LET locked == getIndexLock(st, id) IN
         IF ids # {} THEN Ok([locked EXCEPT !.disk[id].docs = DeleteIds(@, ids)])
         ELSE IF filter # ""
              THEN Ok([locked EXCEPT !.disk[id].docs = DeleteMatching(@, filter)])
         ELSE Err(locked, "must provide ids or filter")

\* updates is a map over a subset of Attrs, merged over the stored fields.
Merge(doc, updates) ==
    [a \in Attrs |-> IF a \in DOMAIN updates THEN updates[a] ELSE doc[a]]

UpdateDocumentInternal(st, id, documentID, updates) ==
    IF id \notin st.indexes THEN Err(st, "not found")
    ELSE LET locked == getIndexLock(st, id) IN
         IF st.disk[id].docs[documentID] = NoDoc THEN Err(locked, "document not found")
         ELSE Ok([locked EXCEPT !.disk[id].docs[documentID] = Merge(@, updates)])

\* The public operations take the store-wide lock and do the same work.
CreateIndex(st, config) == CreateIndexInternal(st, config)
DeleteIndex(st, id) == DeleteIndexInternal(st, id)
UpdateIndex(st, id, config) == UpdateIndexInternal(st, id, config)

GetIndex(st, id) == IF id \in st.indexes THEN "ok" ELSE "not found"

GetAllConfigs(st) == st.configs

RestoreConfigs(st, configs) == saveConfigs([st EXCEPT !.configs = configs])

\* The attributes whose lower-case name ends in "id".
IdAttrs == {"id"}

DetectPrimaryKey(docs) ==
    LET candidates == {a \in IdAttrs : \E k \in 1..Len(docs) : docs[k][a] # Null} IN
    IF docs = <<>> THEN [pk |-> "", err |-> "empty document set"]
    ELSE IF candidates = {} THEN [pk |-> "", err |-> "no candidate"]
    ELSE IF Cardinality(candidates) > 1 THEN [pk |-> "", err |-> "multiple candidates"]
    ELSE [pk |-> CHOOSE a \in candidates : TRUE, err |-> "ok"]

(***************************************************************************)
(* Commands and the FSM.  A command is {type, data}; each apply method     *)
(* decodes data into its payload struct, which keeps only the payload's    *)
(* fields.                                                                 *)
(***************************************************************************)
Config(id, pk, excl) == [id |-> id, primaryKey |-> pk, excludeAttributes |-> excl]

\* The JSON the handlers send for index commands is the whole IndexConfig.
CreateIndexCmd(config) == [type |-> "create_index", data |-> config]
DeleteIndexCmd(id) == [type |-> "delete_index", data |-> [id |-> id]]
UpdateIndexCmd(config) == [type |-> "update_index", data |-> config]
AddDocumentsCmd(id, docs) ==
    [type |-> "add_documents", data |-> [index_id |-> id, documents |-> docs]]
DeleteDocumentsCmd(id, filter, ids) ==
    [type |-> "delete_documents",
     data |-> [index_id |-> id, filter |-> filter, ids |-> ids]]
AutoCreateAndAddDocumentsCmd(id, pk, docs) ==
    [type |-> "auto_create_and_add_documents",
     data |-> [index_id |-> id, primary_key |-> pk, documents |-> docs]]

\* CreateIndexPayload and UpdateIndexPayload have the fields id and primaryKey only.
applyCreateIndex(st, data) ==
    CreateIndexInternal(st, Config(data.id, data.primaryKey, {}))
applyDeleteIndex(st, data) == DeleteIndexInternal(st, data.id)
applyUpdateIndex(st, data) ==
    UpdateIndexInternal(st, data.id, Config(data.id, data.primaryKey, {}))
applyAddDocuments(st, data) == AddDocumentsInternal(st, data.index_id, data.documents)
applyDeleteDocument(st, data) ==
    DeleteDocumentInternal(st, data.index_id, data.document_id)
applyDeleteDocuments(st, data) ==
    DeleteDocumentsInternal(st, data.index_id, data.filter, data.ids)
applyUpdateDocument(st, data) ==
    UpdateDocumentInternal(st, data.index_id, data.document_id, data.updates)

\* FSM.Apply taking a type it does not know for delete_document.
FSMApplyLenient(st, cmd) ==
    CASE cmd.type = "create_index" -> applyCreateIndex(st, cmd.data)
      [] cmd.type = "delete_index" -> applyDeleteIndex(st, cmd.data)
      [] cmd.type = "update_index" -> applyUpdateIndex(st, cmd.data)
      [] cmd.type = "add_documents" -> applyAddDocuments(st, cmd.data)
      [] cmd.type = "delete_documents" -> applyDeleteDocuments(st, cmd.data)
      [] cmd.type = "update_document" -> applyUpdateDocument(st, cmd.data)
      [] cmd.type = "auto_create_and_add_documents" -> Err(st, "unknown command type")
      [] OTHER -> applyDeleteDocument(st, cmd.data)

FSMApply(st, cmd) ==
    CASE cmd.type = "create_index" -> applyCreateIndex(st, cmd.data)
      [] cmd.type = "delete_index" -> applyDeleteIndex(st, cmd.data)
      [] cmd.type = "update_index" -> applyUpdateIndex(st, cmd.data)
      [] cmd.type = "add_documents" -> applyAddDocuments(st, cmd.data)
      [] cmd.type = "delete_document" -> applyDeleteDocument(st, cmd.data)
      [] cmd.type = "delete_documents" -> applyDeleteDocuments(st, cmd.data)
      [] cmd.type = "update_document" -> applyUpdateDocument(st, cmd.data)
      [] OTHER -> Err(st, "unknown command type")

\* json.Decode into map[string]*IndexConfig: a field that is left out stays zero.
Decode(data) ==
    [i \in IndexIds |->
        IF data[i] = NoJSON THEN NoConfig
        ELSE Config(data[i].id, data[i].primaryKey,
                    IF data[i].omitted THEN {} ELSE data[i].excludeAttributes)]

\* Startup: read configs.json and open (or recreate) the engine of every listed id.
\* A file that does not parse leaves the store as NewIndexStore made it, empty.
loadConfigs(st) ==
    IF st.configFile.torn
    THEN [st EXCEPT !.configs = NoConfigs, !.indexes = {}, !.indexLocks = {}]
    ELSE
    LET configs == Decode(st.configFile.data)
        ids == {i \in IndexIds : configs[i] # NoConfig} IN
    [st EXCEPT !.configs = configs,
               !.indexes = ids,
               !.indexLocks = ids,
               !.disk = [i \in IndexIds |->
                           IF i \in ids /\ ~st.disk[i].exists THEN EmptyDir
                           ELSE st.disk[i]]]

\* fsmSnapshot.Persist writes the config map as JSON; FSM.Restore decodes it.
Persist(st) == Marshal(GetAllConfigs(st))
FSMRestore(st, data) == RestoreConfigs(st, Decode(data))

(***************************************************************************)
(* The HTTP handlers and the ingress callbacks, as the effect each has on  *)
(* the node that runs it: a plain response, a forward to the leader, a     *)
(* direct write to the local store, or a command given to RaftNode.Apply.  *)
(***************************************************************************)
IsRaftEnabled == cfg.clustered
IsLeader(n) == cfg.clustered /\ leader = n

Respond(code) == [kind |-> "resp", code |-> code]
ForwardToLeader == [kind |-> "forward", code |-> 0]
Direct(st, code) == [kind |-> "direct", st |-> st, code |-> code]
ViaRaft(cmd, timeout, okCode, errCode) ==
    [kind |-> "raft", cmd |-> cmd, timeout |-> timeout,
     okCode |-> okCode, errCode |-> errCode]

\* Documents without a value at pk get a fresh UUID there.
FillUUID(docs, pk, uuid) ==
    [k \in 1..Len(docs) |->
        IF docs[k][pk] = Null THEN [docs[k] EXCEPT ![pk] = uuid] ELSE docs[k]]

handleRaftAutoCreate(n, id, config, docs, uuid) ==
    IF ~IsLeader(n) THEN ForwardToLeader
    ELSE ViaRaft(AutoCreateAndAddDocumentsCmd(
                    id, config.primaryKey, FillUUID(docs, config.primaryKey, uuid)),
                 10, 201, 500)

\* AddDocuments from the point where the index and its config are in hand.
AddDocumentsFound(n, st, id, docs, primaryKey, uuid) ==
    LET config == st.configs[id]
        effectivePrimaryKey == IF primaryKey # "" THEN primaryKey ELSE config.primaryKey
    IN  IF config = NoConfig THEN Respond(500)
        ELSE LET filled == FillUUID(docs, effectivePrimaryKey, uuid) IN
             IF IsRaftEnabled THEN
                IF ~IsLeader(n) THEN ForwardToLeader
                ELSE ViaRaft(AddDocumentsCmd(id, filled), 10, 201, 500)
             ELSE Direct([st EXCEPT !.disk[id].docs =
                              IndexBatch(@, filled, effectivePrimaryKey)], 201)

AddDocuments(n, id, docs, primaryKey, uuid) ==
    LET st == store[n] IN
    IF id \in st.indexes THEN AddDocumentsFound(n, st, id, docs, primaryKey, uuid)
    ELSE IF ~cfg.autoCreate THEN Respond(404)
    ELSE LET detected == IF primaryKey # "" THEN [pk |-> primaryKey, err |-> "ok"]
                         ELSE DetectPrimaryKey(docs)
             autoConfig == Config(id, detected.pk, {})
         IN  IF detected.err # "ok" THEN Respond(400)
             ELSE IF IsRaftEnabled
                  THEN handleRaftAutoCreate(n, id, autoConfig, docs, uuid)
             ELSE LET created == CreateIndex(st, autoConfig) IN
                  IF created.err # "ok" THEN Respond(500)
                  ELSE AddDocumentsFound(n, created.st, id, docs, primaryKey, uuid)

DeleteDocuments(n, id, filter, ids) ==
    LET st == store[n] IN
    IF id \notin st.indexes THEN Respond(404)
    ELSE IF ids # {} THEN Direct([st EXCEPT !.disk[id].docs = DeleteIds(@, ids)], 204)
    ELSE IF filter # ""
         THEN Direct([st EXCEPT !.disk[id].docs = DeleteFirstPage(@, filter)], 204)
    ELSE Respond(400)

DeleteDocument(n, id, documentID) ==
    LET st == store[n] IN
    IF id \notin st.indexes THEN Respond(404)
    ELSE Direct([st EXCEPT !.disk[id].docs[documentID] = NoDoc], 204)

UpdateDocument(n, id, documentID, updates) ==
    LET st == store[n] IN
    IF id \notin st.indexes THEN Respond(404)
    ELSE IF st.disk[id].docs[documentID] = NoDoc THEN Respond(404)
    ELSE Direct([st EXCEPT !.disk[id].docs[documentID] = Merge(@, updates)], 200)

CreateIndexHandler(n, id, primaryKey, excludeAttributes) ==
    LET config == Config(id, primaryKey, excludeAttributes) IN
    IF id = "" THEN Respond(400)
    ELSE IF IsRaftEnabled THEN
        IF ~IsLeader(n) THEN ForwardToLeader
        ELSE ViaRaft(CreateIndexCmd(config), 10, 201, 500)
    ELSE LET created == CreateIndex(store[n], config) IN
         IF created.err = "already exists" THEN Respond(409)
         ELSE Direct(created.st, 201)

DeleteIndexHandler(n, id) ==
    IF IsRaftEnabled THEN
        IF ~IsLeader(n) THEN ForwardToLeader
        ELSE ViaRaft(DeleteIndexCmd(id), 10, 204, 500)
    ELSE LET deleted == DeleteIndex(store[n], id) IN
         IF deleted.err # "ok" THEN Respond(404) ELSE Direct(deleted.st, 204)

UpdateIndexHandler(n, id, config) ==
    IF IsRaftEnabled THEN
        IF ~IsLeader(n) THEN ForwardToLeader
        ELSE ViaRaft(UpdateIndexCmd([config EXCEPT !.id = id]), 10, 200, 500)
    ELSE LET updated == UpdateIndex(store[n], id, config) IN
         IF updated.err # "ok" THEN Respond(404) ELSE Direct(updated.st, 200)

\* The ingress of index id on node n: its raftNode is nil exactly in standalone mode.
applyDocumentsViaRaft(id, docs) == ViaRaft(AddDocumentsCmd(id, docs), 30, 200, 500)

handleDocuments(n, id, docs) ==
    IF docs = <<>> THEN Respond(200)
    ELSE IF IsRaftEnabled /\ IsLeader(n) THEN applyDocumentsViaRaft(id, docs)
    ELSE LET added == AddDocumentsInternal(store[n], id, docs) IN
         Direct(added.st, IF added.err = "ok" THEN 200 ELSE 500)

handleDeletes(n, id, ids) ==
    IF ids = {} THEN Respond(200)
    ELSE LET deleted == DeleteDocumentsInternal(store[n], id, "", ids) IN
         Direct(deleted.st, IF deleted.err = "ok" THEN 200 ELSE 500)

\* A new cluster: empty log, empty stores, no snapshots.
NewCluster ==
    /\ leader = "n1"
    /\ log = <<>>
    /\ applied = [n \in Nodes |-> 0]
    /\ store = [n \in Nodes |-> EmptyStore]
    /\ snap = [n \in Nodes |-> NoSnap]
    /\ snapPending = [n \in Nodes |-> -1]
    /\ acked = {}

(***************************************************************************)
(* The PostgreSQL poller after its full sync (polling mode, auto_triggers  *)
(* on).  Every change of the source table gets its own timestamp; the      *)
(* queries and the deliveries succeed.                                     *)
(***************************************************************************)
Rows == {"r1", "r2"}
BatchSize == 1
MaxChanges == 3

\* The full sync has delivered every row and set the cursor.
FullSyncDone ==
    /\ now = 0
    /\ updatedAt = [r \in Rows |-> 0]
    /\ live = [r \in Rows |-> TRUE]
    /\ deletedAt = [r \in Rows |-> 0]
    /\ indexed = [r \in Rows |-> 0]
    /\ lastSyncAt = 0
    /\ pollPc = "idle"
    /\ changes = 0

\* ORDER BY at LIMIT BatchSize over the rows of S.
Limit(S, at) == {r \in S : Cardinality({q \in S : at[q] < at[r]}) < BatchSize}

\* SELECT ... WHERE updated_at > lastSyncAt ORDER BY updated_at LIMIT BatchSize
fetchChanges == Limit({r \in Rows : live[r] /\ updatedAt[r] > lastSyncAt}, updatedAt)

\* SELECT deleted_id ... WHERE deleted_at > lastSyncAt ORDER BY deleted_at LIMIT BatchSize
fetchDeletes == Limit({r \in Rows : deletedAt[r] > lastSyncAt}, deletedAt)

\* An UPDATE of a row: its updated_at column takes the time of the change.
UpdateRow(r) ==
    /\ live[r]
    /\ changes < MaxChanges
    /\ now' = now + 1
    /\ updatedAt' = [updatedAt EXCEPT ![r] = now + 1]
    /\ changes' = changes + 1
    /\ UNCHANGED <<live, deletedAt, indexed, lastSyncAt, pollPc, clusterVars, lockVars, ingVars, joinVars, svcVars>>

\* A DELETE of a row: the trigger records (id, deleted_at = NOW()) in the deletes table.
DeleteRow(r) ==
    /\ live[r]
    /\ changes < MaxChanges
    /\ now' = now + 1
    /\ live' = [live EXCEPT ![r] = FALSE]
    /\ deletedAt' = [deletedAt EXCEPT ![r] = now + 1]
    /\ changes' = changes + 1
    /\ UNCHANGED <<updatedAt, indexed, lastSyncAt, pollPc, clusterVars, lockVars, ingVars, joinVars, svcVars>>

\* incrementalSync, first half: fetchChanges and onDocuments.
SyncChanges ==
    /\ pollPc = "idle"
    /\ indexed' = [r \in Rows |-> IF r \in fetchChanges THEN updatedAt[r] ELSE indexed[r]]
    /\ pollPc' = "deletes"
    /\ UNCHANGED <<now, updatedAt, live, deletedAt, lastSyncAt, changes,
                   clusterVars, lockVars, ingVars, joinVars, svcVars>>

\* incrementalSync, second half: fetchDeletes and onDeletes.
SyncDeletes ==
    /\ pollPc = "deletes"
    /\ indexed' = [r \in Rows |-> IF r \in fetchDeletes THEN -1 ELSE indexed[r]]
    /\ pollPc' = "advance"
    /\ UNCHANGED <<now, updatedAt, live, deletedAt, lastSyncAt, changes,
                   clusterVars, lockVars, ingVars, joinVars, svcVars>>

\* incrementalSync, the end: lastSyncAt = time.Now(), later than every change made
\* so far.  With no change since the cursor was set, the cursor keeps its place
\* among the timestamps.
AdvanceCursor ==
    /\ pollPc = "advance"
    /\ IF now > lastSyncAt
       THEN now' = now + 1 /\ lastSyncAt' = now + 1
       ELSE UNCHANGED <<now, lastSyncAt>>
    /\ pollPc' = "idle"
    /\ UNCHANGED <<updatedAt, live, deletedAt, indexed, changes, clusterVars, lockVars, ingVars, joinVars, svcVars>>

(***************************************************************************)
(* Joining the cluster.  A node that does not bootstrap and has peers      *)
(* configured runs a goroutine that asks each peer in turn to add it, up   *)
(* to MaxRetries times over the list.                                      *)
(***************************************************************************)
MaxRetries == 2
MaxPeers == 2

\* Addresses as they are written in RAFT_PEERS, RAFT_ADVERTISE and RAFT_BIND.
Addrs == {"node-0.bright:7000", "node-1.bright:7000", "10.0.0.1:7000", "0.0.0.0:7000"}

PeerLists == UNION {[1..k -> Addrs] : k \in 0..MaxPeers}

NoJoin ==
    /\ peers = <<>>
    /\ advertiseAddr = "0.0.0.0:7000"
    /\ joiner = "none"
    /\ attempt = 0
    /\ peerIdx = 1
    /\ rpcs = {}

\* NewRaftNode: the advertised address is RaftAdvertise, or RaftBind when that is
\* empty; a node with Bootstrap set bootstraps, another one with peers starts the
\* auto-join goroutine.
NewRaftNode(RaftBind, RaftAdvertise, Bootstrap, Peers) ==
    /\ peers = Peers
    /\ advertiseAddr = IF RaftAdvertise = "" THEN RaftBind ELSE RaftAdvertise
    /\ joiner = IF Bootstrap THEN "bootstrapped"
                ELSE IF Len(Peers) > 0 THEN "loop" ELSE "none"
    /\ attempt = 0
    /\ peerIdx = 1
    /\ rpcs = {}

\* A loop body that skips no peer.
SkipsNone(peerAddr) == FALSE

\* "Skip self": the peer is written exactly as the advertised address is.
Skips(peerAddr) == peerAddr = advertiseAddr

\* The loop passes over a peer it skips.
JoinSkip ==
    /\ joiner = "loop"
    /\ peerIdx <= Len(peers)
    /\ Skips(peers[peerIdx])
    /\ peerIdx' = peerIdx + 1
    /\ UNCHANGED <<peers, advertiseAddr, joiner, attempt, rpcs, clusterVars, lockVars, pollVars, ingVars, svcVars>>

\* ClusterJoin to the peer returns no error: the goroutine returns.
ClusterJoinOk ==
    /\ joiner = "loop"
    /\ peerIdx <= Len(peers)
    /\ ~Skips(peers[peerIdx])
    /\ rpcs' = rpcs \cup {peers[peerIdx]}
    /\ joiner' = "joined"
    /\ UNCHANGED <<peers, advertiseAddr, attempt, peerIdx, clusterVars, lockVars, pollVars, ingVars, svcVars>>

\* ClusterJoin to the peer fails: on to the next peer.
ClusterJoinFailed ==
    /\ joiner = "loop"
    /\ peerIdx <= Len(peers)
    /\ ~Skips(peers[peerIdx])
    /\ rpcs' = rpcs \cup {peers[peerIdx]}
    /\ peerIdx' = peerIdx + 1
    /\ UNCHANGED <<peers, advertiseAddr, joiner, attempt, clusterVars, lockVars, pollVars, ingVars, svcVars>>

\* The list is through: sleep retryDelay and start over, unless this was the last attempt.
JoinRetry ==
    /\ joiner = "loop"
    /\ peerIdx > Len(peers)
    /\ attempt < MaxRetries - 1
    /\ attempt' = attempt + 1
    /\ peerIdx' = 1
    /\ UNCHANGED <<peers, advertiseAddr, joiner, rpcs, clusterVars, lockVars, pollVars, ingVars, svcVars>>

\* A loop with no last attempt: it starts over once more.
JoinOnceMore ==
    /\ joiner = "loop"
    /\ peerIdx > Len(peers)
    /\ attempt = MaxRetries - 1
    /\ attempt' = attempt + 1
    /\ peerIdx' = 1
    /\ UNCHANGED <<peers, advertiseAddr, joiner, rpcs, clusterVars, lockVars, pollVars, ingVars, svcVars>>

\* The last attempt is through: "Failed to auto-join cluster".
JoinGiveUp ==
    /\ joiner = "loop"
    /\ peerIdx > Len(peers)
    /\ attempt = MaxRetries - 1
    /\ joiner' = "failed"
    /\ UNCHANGED <<peers, advertiseAddr, attempt, peerIdx, rpcs, clusterVars, lockVars, pollVars, ingVars, svcVars>>

(***************************************************************************)
(* The PostgreSQL ingress: its status, the pollLoop goroutine with the     *)
(* poller's full sync, the listener's goroutines, and the calls Start,     *)
(* Stop, Pause, Resume and Resync.  Start returns at once only when the    *)
(* status is Running; in any other status it starts the tasks anew, and    *)
(* the goroutines of the earlier Start go on running.  Start and Stop hold *)
(* Ingress.mu while they wait, so the other calls cannot run meanwhile.    *)
(***************************************************************************)
MaxRows == 2
ListenerBatchSize == 2
MaxInflight == 2
MaxOrphans == 1
MaxFailedConnects == 2
maxAttempts == 30

TableRows == 1..MaxRows

\* The ingress as NewIngress leaves it, with a source table that holds every row.
NewIngress ==
    /\ status = "Stopped"
    /\ ctxDone = FALSE
    /\ iMu = "none"
    /\ pool = FALSE
    /\ pollLoop = "none"
    /\ fullSyncComplete = FALSE
    /\ lastID = 0
    /\ fetched = {}
    /\ statsFullSyncComplete = FALSE
    /\ cursorRow = "none"
    /\ table = TableRows
    /\ stable = {}
    /\ delivered = {}
    /\ resyncPending = FALSE
    /\ listenLoop = FALSE
    /\ batchProcessor = FALSE
    /\ pendingOps = 0
    /\ inflight = 0
    /\ orphans = [pollLoops |-> 0, listeners |-> 0]
    /\ failedConnects = 0

NoIngress ==
    /\ syncMode = "polling"
    /\ unmapped = {}
    /\ NewIngress

restVars == <<clusterVars, lockVars, pollVars, joinVars, svcVars>>
ingConfig == <<syncMode, unmapped>>
listenerVars == <<listenLoop, batchProcessor, pendingOps, inflight>>

Max(S) == CHOOSE m \in S : \A r \in S : r <= m

\* fetchBatch: SELECT ... WHERE pk > afterID ORDER BY pk LIMIT BatchSize; a row that
\* RowToDocument or GetPrimaryKeyValue fails on is skipped.
fetchBatch(afterID) ==
    LET S == {r \in table : r > afterID}
        rows == {r \in S : Cardinality({q \in S : q < r}) < BatchSize}
    IN  rows \ unmapped

\* The loop of fullSync from afterID on with every fetch and delivery succeeding:
\* the rows it hands to onDocuments.
RECURSIVE fullSync(_)
fullSync(afterID) ==
    LET docs == fetchBatch(afterID) IN
    IF docs = {} THEN {}
    ELSE IF Cardinality(docs) < BatchSize THEN docs
    ELSE docs \cup fullSync(Max(docs))

\* The goroutines of the latest Start that have not returned.
PollLoopRuns == pollLoop \notin {"none", "done"}
ListenerRuns == listenLoop \/ batchProcessor

\* loadState: the cursor row, if there is one, sets stats.fullSyncComplete.
loadState == IF cursorRow = "none" THEN statsFullSyncComplete ELSE cursorRow = "true"

\* Start in polling mode, up to the start of the pollLoop goroutine: the poller is
\* made anew with SetState(lastSyncAt, "", stats.fullSyncComplete).
StartPolling ==
    /\ iMu = "none"
    /\ status # "Running"
    /\ syncMode = "polling"
    /\ PollLoopRuns => orphans.pollLoops < MaxOrphans
    /\ orphans' = [orphans EXCEPT !.pollLoops = IF PollLoopRuns THEN @ + 1 ELSE @]
    /\ status' = "Starting"
    /\ iMu' = "Start"
    /\ ctxDone' = FALSE
    /\ pool' = TRUE
    /\ statsFullSyncComplete' = loadState
    /\ fullSyncComplete' = loadState
    /\ lastID' = 0
    /\ pollLoop' = "initial"
    /\ failedConnects' = 0
    /\ UNCHANGED <<ingConfig, fetched, cursorRow, table, stable, delivered, resyncPending,
                   listenerVars, restVars>>

\* Start, the end: status.Store(StatusRunning) and the deferred mu.Unlock().
StartReturn ==
    /\ iMu = "Start"
    /\ status' = "Running"
    /\ iMu' = "none"
    /\ UNCHANGED <<ingConfig, failedConnects, orphans, ctxDone, pool, pollLoop, fullSyncComplete, lastID, fetched,
                   statsFullSyncComplete, cursorRow, table, stable, delivered,
                   resyncPending, listenerVars, restVars>>

\* Start in listen mode: the initial full sync runs inside Start, then the listener's
\* two goroutines start.
StartListen ==
    /\ iMu = "none"
    /\ status # "Running"
    /\ syncMode = "listen"
    /\ ListenerRuns => orphans.listeners < MaxOrphans
    /\ orphans' = [orphans EXCEPT !.listeners = IF ListenerRuns THEN @ + 1 ELSE @]
    /\ status' = "Running"
    /\ ctxDone' = FALSE
    /\ pool' = TRUE
    /\ fullSyncComplete' = TRUE
    /\ statsFullSyncComplete' = TRUE
    /\ lastID' = 0
    /\ IF loadState
       THEN UNCHANGED <<stable, delivered, cursorRow, resyncPending>>
       ELSE /\ stable' = table
            /\ delivered' = fullSync(0)
            /\ cursorRow' = "true"
            /\ resyncPending' = FALSE
    /\ listenLoop' = TRUE
    /\ batchProcessor' = TRUE
    /\ failedConnects' = 0
    /\ UNCHANGED <<ingConfig, iMu, pollLoop, fetched, table, pendingOps, inflight, restVars>>

\* Start that fails (Connect fails, or it succeeds and the initial sync fails):
\* setError.
StartFailed ==
    /\ iMu = "none"
    /\ status # "Running"
    /\ status' = "Error"
    /\ ctxDone' = FALSE
    /\ \/ failedConnects < MaxFailedConnects /\ failedConnects' = failedConnects + 1
       \/ failedConnects' = 0
    /\ UNCHANGED <<ingConfig, orphans, iMu, pool, pollLoop, fullSyncComplete, lastID, fetched,
                   statsFullSyncComplete, cursorRow, table, stable, delivered,
                   resyncPending, listenerVars, restVars>>

\* Stop, up to wg.Wait(): the context is cancelled.
StopCall ==
    /\ iMu = "none"
    /\ status # "Stopped"
    /\ iMu' = "Stop"
    /\ ctxDone' = TRUE
    /\ UNCHANGED <<ingConfig, failedConnects, orphans, status, pool, pollLoop, fullSyncComplete, lastID, fetched,
                   statsFullSyncComplete, cursorRow, table, stable, delivered,
                   resyncPending, listenerVars, restVars>>

\* Stop, from wg.Wait() on: the pollLoop goroutine and the listener's two goroutines
\* have returned; the pool is closed, so saveState saves nothing.
StopReturn ==
    /\ iMu = "Stop"
    /\ pollLoop \in {"none", "done"}
    /\ orphans.pollLoops = 0
    /\ ~listenLoop
    /\ ~batchProcessor
    /\ pool' = FALSE
    /\ status' = "Stopped"
    /\ iMu' = "none"
    /\ pollLoop' = "none"
    /\ UNCHANGED <<ingConfig, failedConnects, orphans, ctxDone, fullSyncComplete, lastID, fetched,
                   statsFullSyncComplete, cursorRow, table, stable, delivered,
                   resyncPending, listenerVars, restVars>>

Pause ==
    /\ iMu = "none"
    /\ status = "Running"
    /\ status' = "Paused"
    /\ UNCHANGED <<ingConfig, failedConnects, orphans, ctxDone, iMu, pool, pollLoop, fullSyncComplete, lastID, fetched,
                   statsFullSyncComplete, cursorRow, table, stable, delivered,
                   resyncPending, listenerVars, restVars>>

Resume ==
    /\ iMu = "none"
    /\ status = "Paused"
    /\ status' = "Running"
    /\ UNCHANGED <<ingConfig, failedConnects, orphans, ctxDone, iMu, pool, pollLoop, fullSyncComplete, lastID, fetched,
                   statsFullSyncComplete, cursorRow, table, stable, delivered,
                   resyncPending, listenerVars, restVars>>

\* Poller.ResetState
ResetState ==
    /\ fullSyncComplete' = FALSE
    /\ lastID' = 0

\* Resync, in any status: the stats and the poller are reset and the cursor row is
\* deleted if the pool is open.
Resync ==
    /\ iMu = "none"
    /\ status \in {"Running", "Syncing", "Paused", "Error"}
    /\ statsFullSyncComplete' = FALSE
    /\ ResetState
    /\ cursorRow' = IF pool THEN "none" ELSE cursorRow
    /\ resyncPending' = (resyncPending \/ status \in {"Running", "Syncing", "Paused"})
    /\ UNCHANGED <<ingConfig, failedConnects, orphans, status, ctxDone, iMu, pool, pollLoop, fetched, table, stable,
                   delivered, listenerVars, restVars>>

\* setError
setError == status' = "Error"

\* pollLoop: a tick of the ticker, skipped while the status is Paused.
Tick ==
    /\ pollLoop = "select"
    /\ status # "Paused"
    /\ pollLoop' = "tick"
    /\ UNCHANGED <<ingConfig, failedConnects, orphans, status, ctxDone, iMu, pool, fullSyncComplete, lastID, fetched,
                   statsFullSyncComplete, cursorRow, table, stable, delivered,
                   resyncPending, listenerVars, restVars>>

\* pollLoop: the select takes ctx.Done() and the goroutine returns.
PollLoopReturn ==
    /\ pollLoop = "select"
    /\ ctxDone
    /\ pollLoop' = "done"
    /\ UNCHANGED <<ingConfig, failedConnects, orphans, status, ctxDone, iMu, pool, fullSyncComplete, lastID, fetched,
                   statsFullSyncComplete, cursorRow, table, stable, delivered,
                   resyncPending, listenerVars, restVars>>

\* The pollLoop goroutine of an earlier Start takes ctx.Done() of the context the
\* latest Start made (it reads i.ctx at every select) and returns.  The listener
\* of an earlier Start has a context nothing cancels any more: it does not return.
OrphanReturn ==
    /\ orphans.pollLoops > 0
    /\ ctxDone
    /\ orphans' = [orphans EXCEPT !.pollLoops = @ - 1]
    /\ UNCHANGED <<ingConfig, failedConnects, status, ctxDone, iMu, pool, pollLoop, fullSyncComplete, lastID,
                   fetched, statsFullSyncComplete, cursorRow, table, stable, delivered,
                   resyncPending, listenerVars, restVars>>

\* doPoll, the beginning: status.Store(StatusSyncing), and Poll chooses the sync.
DoPollBegin ==
    /\ pollLoop \in {"initial", "tick"}
    /\ status' = "Syncing"
    /\ pollLoop' = IF fullSyncComplete THEN "incrementalSync" ELSE "fetchBatch"
    /\ UNCHANGED <<ingConfig, failedConnects, orphans, ctxDone, iMu, pool, fullSyncComplete, lastID, fetched,
                   statsFullSyncComplete, cursorRow, table, stable, delivered,
                   resyncPending, listenerVars, restVars>>

\* fullSync: fetchBatch(ctx, p.lastID) returns.  A fetch from the start of the table
\* begins a full sync afresh.
FetchBatch ==
    /\ pollLoop = "fetchBatch"
    /\ ~ctxDone
    /\ fetched' = fetchBatch(lastID)
    /\ pollLoop' = IF fetchBatch(lastID) = {} THEN "complete" ELSE "onDocuments"
    /\ IF lastID = 0
       THEN stable' = table /\ delivered' = {} /\ resyncPending' = FALSE
       ELSE UNCHANGED <<stable, delivered, resyncPending>>
    /\ UNCHANGED <<ingConfig, failedConnects, orphans, status, ctxDone, iMu, pool, fullSyncComplete, lastID,
                   statsFullSyncComplete, cursorRow, table, listenerVars, restVars>>

\* fullSync: onDocuments(docs) returns nil, then p.lastID = lastID and the test for a
\* short batch.
OnDocuments ==
    /\ pollLoop = "onDocuments"
    /\ delivered' = delivered \cup fetched
    /\ lastID' = Max(fetched)
    /\ pollLoop' = IF Cardinality(fetched) < BatchSize THEN "complete" ELSE "fetchBatch"
    /\ UNCHANGED <<ingConfig, failedConnects, orphans, status, ctxDone, iMu, pool, fullSyncComplete, fetched,
                   statsFullSyncComplete, cursorRow, table, stable, resyncPending,
                   listenerVars, restVars>>

\* fullSync, after the loop: fullSyncComplete = true, lastID = "".
FullSyncCompleted ==
    /\ pollLoop = "complete"
    /\ fullSyncComplete' = TRUE
    /\ lastID' = 0
    /\ pollLoop' = "update"
    /\ UNCHANGED <<ingConfig, failedConnects, orphans, status, ctxDone, iMu, pool, fetched, statsFullSyncComplete,
                   cursorRow, table, stable, delivered, resyncPending, listenerVars,
                   restVars>>

\* incrementalSync returns nil: the changes and the deletes it fetched are delivered.
IncrementalSync ==
    /\ pollLoop = "incrementalSync"
    /\ ~ctxDone
    /\ pollLoop' = "update"
    /\ UNCHANGED <<ingConfig, failedConnects, orphans, status, ctxDone, iMu, pool, fullSyncComplete, lastID, fetched,
                   statsFullSyncComplete, cursorRow, table, stable, delivered,
                   resyncPending, listenerVars, restVars>>

\* Poll returns an error (a query or a delivery fails; every query fails once the
\* context is cancelled): setError, and doPoll returns to the loop.
PollFailed ==
    /\ pollLoop \in {"fetchBatch", "onDocuments", "incrementalSync"}
    /\ setError
    /\ pollLoop' = "select"
    /\ UNCHANGED <<ingConfig, failedConnects, orphans, ctxDone, iMu, pool, fullSyncComplete, lastID, fetched,
                   statsFullSyncComplete, cursorRow, table, stable, delivered,
                   resyncPending, listenerVars, restVars>>

\* doPoll, the end: the stats take the poller's state, saveState writes the cursor
\* row, and the deferred function puts a Syncing status back to Running.
DoPollEnd ==
    /\ pollLoop = "update"
    /\ statsFullSyncComplete' = fullSyncComplete
    /\ cursorRow' = IF ~pool \/ ctxDone THEN cursorRow
                    ELSE IF fullSyncComplete THEN "true" ELSE "false"
    /\ status' = IF status = "Syncing" THEN "Running" ELSE status
    /\ pollLoop' = "select"
    /\ UNCHANGED <<ingConfig, failedConnects, orphans, ctxDone, iMu, pool, fullSyncComplete, lastID, fetched,
                   table, stable, delivered, resyncPending, listenerVars, restVars>>

\* processBatchLocked: the pending operations go to a new goroutine.
processBatchLocked ==
    /\ pendingOps' = 0
    /\ inflight' = inflight + 1

\* listenLoop: a notification arrives; addToBatch processes a full batch at once.
Notify ==
    /\ listenLoop
    /\ ~ctxDone
    /\ inflight < MaxInflight
    /\ IF pendingOps + 1 >= ListenerBatchSize
       THEN processBatchLocked
       ELSE pendingOps' = pendingOps + 1 /\ inflight' = inflight
    /\ UNCHANGED <<ingConfig, failedConnects, orphans, status, ctxDone, iMu, pool, pollLoop, fullSyncComplete, lastID,
                   fetched, statsFullSyncComplete, cursorRow, table, stable, delivered,
                   resyncPending, listenLoop, batchProcessor, restVars>>

\* listenLoop: WaitForNotification fails on the cancelled context; the goroutine returns.
ListenLoopReturn ==
    /\ listenLoop
    /\ ctxDone
    /\ listenLoop' = FALSE
    /\ UNCHANGED <<ingConfig, failedConnects, orphans, status, ctxDone, iMu, pool, pollLoop, fullSyncComplete, lastID,
                   fetched, statsFullSyncComplete, cursorRow, table, stable, delivered,
                   resyncPending, batchProcessor, pendingOps, inflight, restVars>>

\* batchProcessor: the 100 ms ticker finds pending operations.
Flush ==
    /\ batchProcessor
    /\ pendingOps > 0
    /\ inflight < MaxInflight
    /\ processBatchLocked
    /\ UNCHANGED <<ingConfig, failedConnects, orphans, status, ctxDone, iMu, pool, pollLoop, fullSyncComplete, lastID,
                   fetched, statsFullSyncComplete, cursorRow, table, stable, delivered,
                   resyncPending, listenLoop, batchProcessor, restVars>>

\* batchProcessor: ctx.Done(); the remaining operations are processed, and the
\* goroutine returns.
BatchProcessorReturn ==
    /\ batchProcessor
    /\ ctxDone
    /\ IF pendingOps > 0 THEN processBatchLocked ELSE UNCHANGED <<pendingOps, inflight>>
    /\ batchProcessor' = FALSE
    /\ UNCHANGED <<ingConfig, failedConnects, orphans, status, ctxDone, iMu, pool, pollLoop, fullSyncComplete, lastID,
                   fetched, statsFullSyncComplete, cursorRow, table, stable, delivered,
                   resyncPending, listenLoop, restVars>>

\* A goroutine of processBatchLocked calls onNotify for its operations: handleNotify
\* delivers them to the index (a DELETE goes to handleDeletes at once).
ProcessBatch ==
    /\ inflight > 0
    /\ inflight' = inflight - 1
    /\ UNCHANGED <<ingConfig, failedConnects, orphans, status, ctxDone, iMu, pool, pollLoop, fullSyncComplete, lastID,
                   fetched, statsFullSyncComplete, cursorRow, table, stable, delivered,
                   resyncPending, listenLoop, batchProcessor, pendingOps, restVars>>

\* The application inserts a row into the source table, or deletes one.
InsertTableRow(r) ==
    /\ r \notin table
    /\ table' = table \cup {r}
    /\ UNCHANGED <<ingConfig, failedConnects, orphans, status, ctxDone, iMu, pool, pollLoop, fullSyncComplete, lastID,
                   fetched, statsFullSyncComplete, cursorRow, stable, delivered,
                   resyncPending, listenerVars, restVars>>

DeleteTableRow(r) ==
    /\ r \in table
    /\ table' = table \ {r}
    /\ stable' = stable \ {r}
    /\ UNCHANGED <<ingConfig, failedConnects, orphans, status, ctxDone, iMu, pool, pollLoop, fullSyncComplete, lastID,
                   fetched, statsFullSyncComplete, cursorRow, delivered,
                   resyncPending, listenerVars, restVars>>

(***************************************************************************)
(* The listener at work (listen mode, after the initial full sync).  A     *)
(* change of a source row fires the notify trigger; listenLoop receives    *)
(* the notifications in the order of the changes and adds them to the      *)
(* batch.  processBatchLocked hands a batch to a goroutine of its own,     *)
(* which calls handleNotify for one notification after the other.          *)
(***************************************************************************)
MaxNotes == 3
Ops == {"INSERT", "UPDATE", "DELETE"}

\* A goroutine with nothing left to do has returned.
Returned == [ops |-> <<>>, fetched |-> FALSE, doc |-> 0]

NewListener ==
    /\ queue = <<>>
    /\ workers = [w \in 1..MaxInflight |-> Returned]
    /\ received = {}
    /\ handled = {}


Range(q) == {q[i] : i \in 1..Len(q)}

\* The trigger's payload for a change of row r, numbered in the order of receipt.
NotifyPayload(op, r) == [op |-> op, id |-> r, seq |-> Cardinality(received) + 1]

\* processBatchLocked: ops := l.pendingOps; l.pendingOps = nil; go func() {...}()
processBatch(ops) ==
    \E w \in 1..MaxInflight :
        /\ workers[w] = Returned
        /\ workers' = [workers EXCEPT ![w] = [Returned EXCEPT !.ops = ops]]
        /\ queue' = <<>>

\* addToBatch: append, and process the batch at once when it is full.
addToBatch(payload) ==
    /\ received' = received \cup {payload}
    /\ IF Len(queue) + 1 >= ListenerBatchSize
       THEN processBatch(Append(queue, payload))
       ELSE queue' = Append(queue, payload) /\ UNCHANGED workers

\* A row is inserted, updated or deleted, and listenLoop receives the notification.
RowInserted(r) ==
    /\ ~live[r]
    /\ Cardinality(received) < MaxNotes
    /\ now' = now + 1
    /\ live' = [live EXCEPT ![r] = TRUE]
    /\ updatedAt' = [updatedAt EXCEPT ![r] = now + 1]
    /\ addToBatch(NotifyPayload("INSERT", r))
    /\ UNCHANGED <<deletedAt, indexed, lastSyncAt, pollPc, changes, handled,
                   clusterVars, lockVars, ingVars, joinVars,
                   fwdVars>>

RowUpdated(r) ==
    /\ live[r]
    /\ Cardinality(received) < MaxNotes
    /\ now' = now + 1
    /\ updatedAt' = [updatedAt EXCEPT ![r] = now + 1]
    /\ addToBatch(NotifyPayload("UPDATE", r))
    /\ UNCHANGED <<live, deletedAt, indexed, lastSyncAt, pollPc, changes, handled,
                   clusterVars, lockVars, ingVars, joinVars,
                   fwdVars>>

RowDeleted(r) ==
    /\ live[r]
    /\ Cardinality(received) < MaxNotes
    /\ now' = now + 1
    /\ live' = [live EXCEPT ![r] = FALSE]
    /\ deletedAt' = [deletedAt EXCEPT ![r] = now + 1]
    /\ addToBatch(NotifyPayload("DELETE", r))
    /\ UNCHANGED <<updatedAt, indexed, lastSyncAt, pollPc, changes, handled,
                   clusterVars, lockVars, ingVars, joinVars,
                   fwdVars>>

\* batchProcessor: the 100 ms ticker finds pending operations.
FlushBatch ==
    /\ queue # <<>>
    /\ processBatch(queue)
    /\ UNCHANGED <<received, handled, pollVars, clusterVars, lockVars, ingVars, joinVars,
                   fwdVars>>

\* The goroutine goes on to its next notification.  The outcome of onNotify is
\* "delivered" (nil after an upsert or a delete), "skipped" (nil, no row to
\* upsert) or "failed": an error is logged and nothing else is done about it.
NextOp(w, outcome) ==
    /\ workers' = [workers EXCEPT ![w] = [Returned EXCEPT !.ops = Tail(workers[w].ops)]]
    /\ handled' = IF outcome = "failed" THEN handled
                  ELSE handled \cup {[note |-> Head(workers[w].ops),
                                      delivered |-> outcome = "delivered"]}

\* handleNotify, INSERT or UPDATE: fetchDocument reads the row as it is now.  With
\* no such row handleNotify returns nil; a failed query is an error.
FetchDocument(w) ==
    /\ workers[w].ops # <<>>
    /\ Head(workers[w].ops).op \in {"INSERT", "UPDATE"}
    /\ ~workers[w].fetched
    /\ LET r == Head(workers[w].ops).id IN
       \/ /\ live[r]
          /\ workers' = [workers EXCEPT ![w].fetched = TRUE, ![w].doc = updatedAt[r]]
          /\ UNCHANGED handled
       \/ /\ ~live[r]
          /\ NextOp(w, "skipped")
       \/ NextOp(w, "failed")
    /\ UNCHANGED <<queue, received, pollVars, clusterVars, lockVars, ingVars, joinVars,
                   fwdVars>>

\* handleNotify, INSERT or UPDATE: handleDocuments upserts the fetched document,
\* or fails.
HandleDocuments(w) ==
    /\ workers[w].ops # <<>>
    /\ workers[w].fetched
    /\ \/ /\ indexed' = [indexed EXCEPT ![Head(workers[w].ops).id] = workers[w].doc]
          /\ NextOp(w, "delivered")
       \/ /\ UNCHANGED indexed
          /\ NextOp(w, "failed")
    /\ UNCHANGED <<queue, received, now, updatedAt, live, deletedAt, lastSyncAt, pollPc,
                   changes, clusterVars, lockVars, ingVars, joinVars,
                   fwdVars>>

\* handleNotify, DELETE: handleDeletes removes the document, or fails.
HandleDeletes(w) ==
    /\ workers[w].ops # <<>>
    /\ Head(workers[w].ops).op = "DELETE"
    /\ \/ /\ indexed' = [indexed EXCEPT ![Head(workers[w].ops).id] = -1]
          /\ NextOp(w, "delivered")
       \/ /\ UNCHANGED indexed
          /\ NextOp(w, "failed")
    /\ UNCHANGED <<queue, received, now, updatedAt, live, deletedAt, lastSyncAt, pollPc,
                   changes, clusterVars, lockVars, ingVars, joinVars,
                   fwdVars>>

(***************************************************************************)
(* The store under concurrent callers.  Each thread runs one store         *)
(* operation at a time; every lock and unlock call is a step.  The         *)
(* store-wide lock mu is a sync.RWMutex: a Lock call that is waiting       *)
(* keeps new readers out.                                                  *)
(***************************************************************************)
Threads == {"t1", "t2"}
LockedIds == {"x", "y"}
LockObjects == 1..(Cardinality(LockedIds) + Cardinality(Threads))
WriterOps == {"CreateIndex", "DeleteIndex"}
InternalOps == {"CreateIndexInternal", "DeleteIndexInternal"}
DocumentOps == {"AddDocumentsInternal", "UpdateDocumentInternal",
                "DeleteDocumentInternal", "DeleteDocumentsInternal"}
HandlerOps == {"AddDocuments", "UpdateDocument", "DeleteDocument", "DeleteDocuments"}
ReaderOps == {"GetIndex"} \cup DocumentOps \cup HandlerOps

\* h is the engine handle the thread got from the map: "none", "open" or, once
\* a deletion has closed it, "closed".
Idle == [pc |-> "idle", op |-> "none", id |-> "none", lk |-> 0, h |-> "none"]

\* The operations a deployment runs: the index handlers call CreateIndex and
\* DeleteIndex on a single node and go through the FSM, which calls the internal
\* ones, in a cluster; the AddDocuments handler writes to the engine itself on a
\* single node only.  The FSM applies one entry at a time.
Runs(op) ==
    /\ op \in WriterOps => ~cfg.clustered
    /\ op = "AddDocuments" => ~cfg.clustered
    /\ op \in InternalOps =>
          /\ cfg.clustered
          /\ \A u \in Threads : thread[u].op \notin InternalOps

NoThreads ==
    /\ mu = [writer |-> "none", readers |-> {}, pending |-> {}]
    /\ opened = {}
    /\ lockMap = [i \in LockedIds |-> 0]
    /\ held = [k \in LockObjects |-> "none"]
    /\ thread = [t \in Threads |-> Idle]

\* &sync.RWMutex{}: an object no map entry and no thread refers to.
NewLock ==
    CHOOSE k \in LockObjects :
        /\ \A i \in LockedIds : lockMap[i] # k
        /\ \A t \in Threads : thread[t].lk # k

\* A thread enters an operation.  The writers call mu.Lock() first, the internal
\* index operations take no lock, the others call mu.RLock().
Call(t, op, id) ==
    /\ thread[t].pc = "idle"
    /\ Runs(op)
    /\ thread' = [thread EXCEPT ![t] =
                    [pc |-> IF op \in WriterOps THEN "mu.Lock"
                            ELSE IF op \in InternalOps THEN "unlocked"
                            ELSE "mu.RLock",
                     op |-> op, id |-> id, lk |-> 0, h |-> "none"]]
    /\ mu' = IF op \in WriterOps THEN [mu EXCEPT !.pending = @ \cup {t}] ELSE mu
    /\ UNCHANGED <<opened, lockMap, held, clusterVars, pollVars, ingVars, joinVars, svcVars>>

\* mu.Lock() returns: no reader and no writer holds mu.
MuLock(t) ==
    /\ thread[t].pc \in {"mu.Lock", "getIndexLock"}
    /\ t \in mu.pending
    /\ mu.writer = "none"
    /\ mu.readers = {}
    /\ mu' = [mu EXCEPT !.writer = t, !.pending = @ \ {t}]
    /\ thread' = [thread EXCEPT ![t].pc =
                    IF @ = "mu.Lock" THEN "locked" ELSE "getIndexLock locked"]
    /\ UNCHANGED <<opened, lockMap, held, clusterVars, pollVars, ingVars, joinVars, svcVars>>

\* mu.RLock() returns: no writer holds mu and none is waiting for it.
MuRLock(t) ==
    /\ thread[t].pc = "mu.RLock"
    /\ mu.writer = "none"
    /\ mu.pending = {}
    /\ mu' = [mu EXCEPT !.readers = @ \cup {t}]
    /\ thread' = [thread EXCEPT ![t].pc = "rlocked"]
    /\ UNCHANGED <<opened, lockMap, held, clusterVars, pollVars, ingVars, joinVars, svcVars>>

\* index.Close() by thread t: the handle of id that other threads hold is closed.
Close(t, id) ==
    [u \in Threads |->
        IF u = t THEN Idle
        ELSE IF thread[u].id = id /\ thread[u].h = "open"
             THEN [thread[u] EXCEPT !.h = "closed"]
        ELSE thread[u]]

\* The body that CreateIndex and CreateIndexInternal, DeleteIndex and
\* DeleteIndexInternal share: the maps get or lose the entries of the index.
Structural(t) ==
    LET id == thread[t].id IN
    IF thread[t].op \in {"CreateIndex", "CreateIndexInternal"}
    THEN /\ thread' = [thread EXCEPT ![t] = Idle]
         /\ IF id \in opened THEN UNCHANGED <<opened, lockMap>>
            ELSE /\ opened' = opened \cup {id}
                 /\ lockMap' = [lockMap EXCEPT ![id] = NewLock]
    ELSE IF id \notin opened
         THEN /\ thread' = [thread EXCEPT ![t] = Idle]
              /\ UNCHANGED <<opened, lockMap>>
         ELSE /\ thread' = Close(t, id)
              /\ opened' = opened \ {id}
              /\ lockMap' = [lockMap EXCEPT ![id] = 0]

\* CreateIndex and DeleteIndex under mu, up to the deferred mu.Unlock().
WriterBody(t) ==
    /\ thread[t].pc = "locked"
    /\ mu.writer = t
    /\ Structural(t)
    /\ mu' = [mu EXCEPT !.writer = "none"]
    /\ UNCHANGED <<held, clusterVars, pollVars, ingVars, joinVars, svcVars>>

\* CreateIndexInternal and DeleteIndexInternal: the maps are read and written
\* with no lock.  When another goroutine is inside a critical section of mu the
\* accesses race: they take effect in some order, or the runtime ends the process
\* ("fatal error: concurrent map read and map write") and the store starts anew
\* from what is on disk.
InternalBody(t) ==
    /\ thread[t].pc = "unlocked"
    /\ \/ /\ Structural(t)
          /\ UNCHANGED <<mu, held>>
       \/ /\ mu.writer # "none" \/ mu.readers # {}
          /\ thread' = [u \in Threads |-> Idle]
          /\ mu' = [writer |-> "none", readers |-> {}, pending |-> {}]
          /\ held' = [k \in LockObjects |-> "none"]
          /\ lockMap' = [i \in LockedIds |->
                            IF i \notin opened THEN 0 ELSE IF i = "x" THEN 1 ELSE 2]
          /\ UNCHANGED opened
    /\ UNCHANGED <<clusterVars, pollVars, ingVars, joinVars, svcVars>>

\* The lookup under the read lock without mu.RUnlock() before getIndexLock.
ReaderBodyHoldingRLock(t) ==
    /\ thread[t].pc = "rlocked"
    /\ t \in mu.readers
    /\ mu' = IF thread[t].op \in DocumentOps /\ thread[t].id \in opened
             THEN mu ELSE [mu EXCEPT !.readers = @ \ {t}]
    /\ thread' = [thread EXCEPT ![t] =
                    IF thread[t].id \notin opened THEN Idle
                    ELSE IF thread[t].op \in DocumentOps
                         THEN [@ EXCEPT !.pc = "call getIndexLock", !.h = "open"]
                    ELSE IF thread[t].op \in HandlerOps
                         THEN [@ EXCEPT !.pc = "engine", !.h = "open"]
                    ELSE Idle]
    /\ UNCHANGED <<opened, lockMap, held, clusterVars, pollVars, ingVars, joinVars, svcVars>>

\* The lookup under the read lock and mu.RUnlock().  On an index that exists an
\* internal document operation goes on to getIndexLock with the handle, and a
\* document handler, which has called GetIndex, goes on to the engine with it.
ReaderBody(t) ==
    /\ thread[t].pc = "rlocked"
    /\ t \in mu.readers
    /\ mu' = [mu EXCEPT !.readers = @ \ {t}]
    /\ thread' = [thread EXCEPT ![t] =
                    IF thread[t].id \notin opened THEN Idle
                    ELSE IF thread[t].op \in DocumentOps
                         THEN [@ EXCEPT !.pc = "call getIndexLock", !.h = "open"]
                    ELSE IF thread[t].op \in HandlerOps
                         THEN [@ EXCEPT !.pc = "engine", !.h = "open"]
                    ELSE Idle]
    /\ UNCHANGED <<opened, lockMap, held, clusterVars, pollVars, ingVars, joinVars, svcVars>>

\* getIndexLock calls mu.Lock().
GetIndexLockCall(t) ==
    /\ thread[t].pc = "call getIndexLock"
    /\ mu' = [mu EXCEPT !.pending = @ \cup {t}]
    /\ thread' = [thread EXCEPT ![t].pc = "getIndexLock"]
    /\ UNCHANGED <<opened, lockMap, held, clusterVars, pollVars, ingVars, joinVars, svcVars>>

\* getIndexLock without the deferred mu.Unlock().
GetIndexLockBodyHoldingMu(t) ==
    LET id == thread[t].id
        lock == IF lockMap[id] # 0 THEN lockMap[id] ELSE NewLock
    IN  /\ thread[t].pc = "getIndexLock locked"
        /\ mu.writer = t
        /\ lockMap' = [lockMap EXCEPT ![id] = lock]
        /\ thread' = [thread EXCEPT ![t].pc = "indexLock.Lock", ![t].lk = lock]
        /\ UNCHANGED <<mu, opened, held, clusterVars, pollVars, ingVars, joinVars, svcVars>>

\* getIndexLock under mu: the lock of the index, made if there is none.
GetIndexLockBody(t) ==
    LET id == thread[t].id
        lock == IF lockMap[id] # 0 THEN lockMap[id] ELSE NewLock
    IN  /\ thread[t].pc = "getIndexLock locked"
        /\ mu.writer = t
        /\ lockMap' = [lockMap EXCEPT ![id] = lock]
        /\ mu' = [mu EXCEPT !.writer = "none"]
        /\ thread' = [thread EXCEPT ![t].pc = "indexLock.Lock", ![t].lk = lock]
        /\ UNCHANGED <<opened, held, clusterVars, pollVars, ingVars, joinVars, svcVars>>

\* indexLock.Lock() returns: nobody holds this lock object.
IndexLock(t) ==
    /\ thread[t].pc = "indexLock.Lock"
    /\ held[thread[t].lk] = "none"
    /\ held' = [held EXCEPT ![thread[t].lk] = t]
    /\ thread' = [thread EXCEPT ![t].pc = "index locked"]
    /\ UNCHANGED <<mu, opened, lockMap, clusterVars, pollVars, ingVars, joinVars, svcVars>>

\* The engine calls under the index lock, up to the deferred indexLock.Unlock().
DocumentBody(t) ==
    /\ thread[t].pc = "index locked"
    /\ held[thread[t].lk] = t
    /\ held' = [held EXCEPT ![thread[t].lk] = "none"]
    /\ thread' = [thread EXCEPT ![t] = Idle]
    /\ UNCHANGED <<mu, opened, lockMap, clusterVars, pollVars, ingVars, joinVars, svcVars>>

\* The engine calls of a document handler, which holds no lock.
HandlerBody(t) ==
    /\ thread[t].pc = "engine"
    /\ thread' = [thread EXCEPT ![t] = Idle]
    /\ UNCHANGED <<mu, opened, lockMap, held, clusterVars, pollVars, ingVars, joinVars, svcVars>>

\* A step of thread t inside an operation.
Step(t) ==
    \/ MuLock(t)
    \/ MuRLock(t)
    \/ WriterBody(t)
    \/ InternalBody(t)
    \/ ReaderBody(t)
    \/ HandlerBody(t)
    \/ GetIndexLockCall(t)
    \/ GetIndexLockBody(t)
    \/ IndexLock(t)
    \/ DocumentBody(t)

\* Every node knows the leader, and no request is on its way.
NoForward ==
    /\ known = [n \in Nodes |-> leader]
    /\ path = <<>>
    /\ reply = 0

\* No listener at work, no request on its way.
NoService == NewListener /\ NoForward

InitLock ==
    /\ cfg \in [clustered : BOOLEAN, autoCreate : {FALSE}]
    /\ NewCluster
    /\ NoThreads
    /\ FullSyncDone
    /\ NoIngress
    /\ NoJoin
    /\ NoService

NextLock ==
    \/ \E t \in Threads, op \in WriterOps \cup InternalOps \cup ReaderOps, id \in LockedIds :
          Call(t, op, id)
    \/ \E t \in Threads : MuLock(t)
    \/ \E t \in Threads : MuRLock(t)
    \/ \E t \in Threads : WriterBody(t)
    \/ \E t \in Threads : InternalBody(t)
    \/ \E t \in Threads : ReaderBody(t)
    \/ \E t \in Threads : HandlerBody(t)
    \/ \E t \in Threads : GetIndexLockCall(t)
    \/ \E t \in Threads : GetIndexLockBody(t)
    \/ \E t \in Threads : IndexLock(t)
    \/ \E t \in Threads : DocumentBody(t)

SpecLock == InitLock /\ [][NextLock]_vars

\* The poll loop: the ticker fires again and again.
Poll == SyncChanges \/ SyncDeletes \/ AdvanceCursor

InitPoll ==
    /\ cfg = [clustered |-> FALSE, autoCreate |-> FALSE]
    /\ NewCluster
    /\ NoThreads
    /\ FullSyncDone
    /\ NoIngress
    /\ NoJoin
    /\ NoService

NextPoll ==
    \/ \E r \in Rows : UpdateRow(r)
    \/ \E r \in Rows : DeleteRow(r)
    \/ SyncChanges
    \/ SyncDeletes
    \/ AdvanceCursor

SpecPoll == InitPoll /\ [][NextPoll]_vars /\ WF_vars(Poll)

\* The ingress of one source table, in either sync mode.
InitIngress ==
    /\ cfg = [clustered |-> FALSE, autoCreate |-> FALSE]
    /\ NewCluster
    /\ NoThreads
    /\ FullSyncDone
    /\ syncMode \in {"polling", "listen"}
    /\ unmapped \in SUBSET TableRows
    /\ NewIngress
    /\ NoJoin
    /\ NoService

NextIngress ==
    \/ StartPolling
    \/ StartReturn
    \/ StartListen
    \/ StartFailed
    \/ StopCall
    \/ StopReturn
    \/ Pause
    \/ Resume
    \/ Resync
    \/ Tick
    \/ PollLoopReturn
    \/ OrphanReturn
    \/ DoPollBegin
    \/ FetchBatch
    \/ OnDocuments
    \/ FullSyncCompleted
    \/ IncrementalSync
    \/ PollFailed
    \/ DoPollEnd
    \/ Notify
    \/ ListenLoopReturn
    \/ Flush
    \/ BatchProcessorReturn
    \/ ProcessBatch
    \/ \E r \in TableRows : InsertTableRow(r)
    \/ \E r \in TableRows : DeleteTableRow(r)

SpecIngress == InitIngress /\ [][NextIngress]_vars

\* The listener of a running ingress in listen mode, the full sync done.
InitListen ==
    /\ cfg = [clustered |-> FALSE, autoCreate |-> FALSE]
    /\ NewCluster
    /\ NoThreads
    /\ FullSyncDone
    /\ NoIngress
    /\ NoJoin
    /\ NewListener
    /\ NoForward

NextListen ==
    \/ \E r \in Rows : RowInserted(r)
    \/ \E r \in Rows : RowUpdated(r)
    \/ \E r \in Rows : RowDeleted(r)
    \/ FlushBatch
    \/ \E w \in 1..MaxInflight : FetchDocument(w)
    \/ \E w \in 1..MaxInflight : HandleDocuments(w)
    \/ \E w \in 1..MaxInflight : HandleDeletes(w)

SpecListen == InitListen /\ [][NextListen]_vars

\* A node starts with some configuration of addresses and peers.
InitJoin ==
    /\ cfg = [clustered |-> TRUE, autoCreate |-> FALSE]
    /\ NewCluster
    /\ NoThreads
    /\ FullSyncDone
    /\ NoIngress
    /\ \E RaftAdvertise \in {"", "node-1.bright:7000"}, Bootstrap \in BOOLEAN,
          Peers \in PeerLists :
          NewRaftNode("0.0.0.0:7000", RaftAdvertise, Bootstrap, Peers)
    /\ NoService

NextJoin ==
    \/ JoinSkip
    \/ ClusterJoinOk
    \/ ClusterJoinFailed
    \/ JoinRetry
    \/ JoinGiveUp

SpecJoin == InitJoin /\ [][NextJoin]_vars

\* The goroutine is scheduled, every ClusterJoin returns within its 5 s context and
\* every sleep ends.
SpecJoinFair == SpecJoin /\ WF_vars(NextJoin)

(***************************************************************************)
(* The cluster.  log is the committed log; every node's FSM applies it in  *)
(* order.  RaftNode.Apply on the leader returns once the entry is          *)
(* committed and the leader's own FSM has applied it.                      *)
(***************************************************************************)
ActiveNodes == IF cfg.clustered THEN Nodes ELSE {"n1"}

\* RaftNode.Apply that does not look at future.Response().
CommitIgnoringResponse(n, cmd, bound) ==
    /\ leader = n
    /\ applied[n] = Len(log)
    /\ Len(log) < bound
    /\ log' = Append(log, cmd)
    /\ store' = [store EXCEPT ![n] = FSMApply(store[n], cmd).st]
    /\ applied' = [applied EXCEPT ![n] = Len(log) + 1]
    /\ acked' = acked \cup {Len(log) + 1}
    /\ UNCHANGED <<cfg, leader, snap, snapPending, lockVars, pollVars, ingVars, joinVars, notifyVars>>

\* RaftNode.Apply(cmd, timeout) on the leader: the entry commits and the leader's FSM
\* applies it; the FSM's answer decides the error returned.
Commit(n, cmd, bound) ==
    /\ leader = n
    /\ applied[n] = Len(log)
    /\ Len(log) < bound
    /\ log' = Append(log, cmd)
    /\ store' = [store EXCEPT ![n] = FSMApply(store[n], cmd).st]
    /\ applied' = [applied EXCEPT ![n] = Len(log) + 1]
    /\ acked' = IF FSMApply(store[n], cmd).err = "ok"
                THEN acked \cup {Len(log) + 1} ELSE acked
    /\ UNCHANGED <<cfg, leader, snap, snapPending, lockVars, pollVars, ingVars, joinVars, notifyVars>>

RaftApplyCommitted(n, eff) == Commit(n, eff.cmd, MaxLog) /\ UNCHANGED fwdVars

\* RaftNode.Apply whose future fails (deadline, leadership lost): nothing commits.
RaftApplyFailed(n, eff) ==
    /\ leader = n
    /\ UNCHANGED <<cfg, leader, log, applied, store, snap, snapPending, acked, lockVars, pollVars, ingVars, joinVars, svcVars>>

(***************************************************************************)
(* Forwarding to the leader.  What raft.State() and raft.LeaderWithID()    *)
(* return on a node is the raft library's business: a node that wins an    *)
(* election knows itself as the leader, the leader it replaces knows none  *)
(* until it hears from the new one, and a follower's knowledge may be out  *)
(* of date.  A handler on a node that is not the leader sends the request  *)
(* to the leader it knows and waits for the answer; the node that gets the *)
(* request handles it like any other request.                              *)
(***************************************************************************)
MaxHops == 4
NoAddr == "none"
Elected(n) ==
    /\ n # leader
    /\ leader' = n
    /\ known' = [known EXCEPT ![n] = n, ![leader] = NoAddr]
    /\ UNCHANGED <<path, reply, cfg, log, applied, store, snap, snapPending, acked,
                   lockVars, pollVars, ingVars, joinVars, notifyVars>>

\* A follower hears from the leader, or gives up on the leader it knew.
Learns(n) ==
    /\ n # leader
    /\ \E addr \in {leader, NoAddr} :
          /\ known[n] # addr
          /\ known' = [known EXCEPT ![n] = addr]
    /\ UNCHANGED <<path, reply, clusterVars, lockVars, pollVars, ingVars, joinVars,
                   notifyVars>>

\* A client sends DELETE /indexes/x to node n, once the request before it is done with.
ClientRequest(n) ==
    /\ path = <<>>
    /\ path' = <<n>>
    /\ reply' = 0
    /\ UNCHANGED <<known, clusterVars, lockVars, pollVars, ingVars, joinVars,
                   notifyVars>>

\* The node whose handler has the request now.
Handler == path[Len(path)]

\* The handler returns: every node that forwarded returns the answer as it got it,
\* and the client gets it unless the first node has answered already.
Answer(code) ==
    /\ path' = <<>>
    /\ reply' = IF reply = 0 THEN code ELSE reply

\* rpc.ForwardToLeader with a leader address: ForwardRequest sends the request on.
Relay ==
    /\ path # <<>>
    /\ DeleteIndexHandler(Handler, "x").kind = "forward"
    /\ known[Handler] # NoAddr
    /\ Len(path) < MaxHops
    /\ path' = Append(path, known[Handler])
    /\ UNCHANGED <<known, reply, clusterVars, lockVars, pollVars, ingVars, joinVars,
                   notifyVars>>

\* rpc.ForwardToLeader with the empty address: ForwardRequest fails, 503
\* CLUSTER_UNAVAILABLE.
Unavailable ==
    /\ path # <<>>
    /\ DeleteIndexHandler(Handler, "x").kind = "forward"
    /\ known[Handler] = NoAddr
    /\ Answer(503)
    /\ UNCHANGED <<known, clusterVars, lockVars, pollVars, ingVars, joinVars, notifyVars>>

\* The handler on the leader: RaftNode.Apply, then 204, or 500 when Apply fails.
LeaderHandles ==
    /\ path # <<>>
    /\ DeleteIndexHandler(Handler, "x").kind = "raft"
    /\ \/ /\ Commit(Handler, DeleteIndexHandler(Handler, "x").cmd, MaxLog)
          /\ Answer(IF Len(log') \in acked' THEN 204 ELSE 500)
       \/ /\ Answer(500)
          /\ UNCHANGED <<clusterVars, lockVars, pollVars, ingVars, joinVars, notifyVars>>
    /\ UNCHANGED known

\* The context of the first node's ForwardRequest runs out (10 s) before an answer
\* has come back: the client gets 503, the nodes further on go on.
ForwardTimeout ==
    /\ Len(path) >= 2
    /\ reply = 0
    /\ reply' = 503
    /\ UNCHANGED <<known, path, clusterVars, lockVars, pollVars, ingVars, joinVars,
                   notifyVars>>

Do(n, eff) ==
    \/ /\ eff.kind \in {"resp", "forward"}
       /\ UNCHANGED <<cfg, leader, log, applied, store, snap, snapPending, acked, lockVars, pollVars, ingVars, joinVars, svcVars>>
    \/ /\ eff.kind = "direct"
       /\ store' = [store EXCEPT ![n] = eff.st]
       /\ UNCHANGED <<cfg, leader, log, applied, snap, snapPending, acked, lockVars, pollVars, ingVars, joinVars, svcVars>>
    \/ /\ eff.kind = "raft"
       /\ RaftApplyCommitted(n, eff)
    \/ /\ eff.kind = "raft"
       /\ RaftApplyFailed(n, eff)

HTTPAddDocuments(n) ==
    \E id \in IndexIds, docs \in Batches,
       primaryKey \in QueryKeys, uuid \in UUIDs :
        Do(n, AddDocuments(n, id, docs, primaryKey, uuid))

HTTPDeleteDocuments(n) ==
    \E id \in IndexIds, filter \in {""} \cup Filters,
       ids \in {{}, {"a"}} :
        Do(n, DeleteDocuments(n, id, filter, ids))

HTTPDeleteDocument(n) ==
    \E id \in IndexIds, documentID \in {"a"} :
        Do(n, DeleteDocument(n, id, documentID))

HTTPUpdateDocument(n) ==
    \E id \in IndexIds, documentID \in {"a"} :
        Do(n, UpdateDocument(n, id, documentID, [val |-> "b"]))

HTTPCreateIndex(n) ==
    \E id \in IndexIds, primaryKey \in PrimaryKeys,
       excludeAttributes \in {{"val"}} :
        Do(n, CreateIndexHandler(n, id, primaryKey, excludeAttributes))

HTTPDeleteIndex(n) ==
    \E id \in IndexIds :
        Do(n, DeleteIndexHandler(n, id))

HTTPUpdateIndex(n) ==
    \E id \in IndexIds, excludeAttributes \in {{"val"}} :
        Do(n, UpdateIndexHandler(n, id, Config(id, "id", excludeAttributes)))

\* A delivery of the ingress running on node n: changed rows, then deleted ids.
IngressDocuments(n) ==
    \E id \in IndexIds, docs \in {<<Doc("a", "b")>>} :
        Do(n, handleDocuments(n, id, docs))

IngressDeletes(n) ==
    \E id \in IndexIds, ids \in {{"a"}} :
        Do(n, handleDeletes(n, id, ids))

\* A node's FSM applies the next committed entry.
FSMApplyNext(n) ==
    /\ cfg.clustered
    /\ applied[n] < Len(log)
    /\ store' = [store EXCEPT ![n] = FSMApply(store[n], log[applied[n] + 1]).st]
    /\ applied' = [applied EXCEPT ![n] = applied[n] + 1]
    /\ UNCHANGED <<cfg, leader, log, snap, snapPending, acked, lockVars, pollVars, ingVars, joinVars, svcVars>>

LeaderChange ==
    /\ cfg.clustered
    /\ \E n \in Nodes \ {leader} : leader' = n
    /\ UNCHANGED <<cfg, log, applied, store, snap, snapPending, acked, lockVars, pollVars, ingVars, joinVars, svcVars>>

\* FSM.Snapshot hands out the store itself; the snapshot's index is the applied index.
SnapshotBegin(n) ==
    /\ cfg.clustered
    /\ snapPending[n] = -1
    /\ applied[n] > snap[n].idx
    /\ snapPending' = [snapPending EXCEPT ![n] = applied[n]]
    /\ UNCHANGED <<cfg, leader, log, applied, store, snap, acked, lockVars, pollVars, ingVars, joinVars, svcVars>>

\* fsmSnapshot.Persist reads the config map when it runs.
SnapshotPersist(n) ==
    /\ snapPending[n] # -1
    /\ snap' = [snap EXCEPT ![n] = [idx |-> snapPending[n], configs |-> Persist(store[n])]]
    /\ snapPending' = [snapPending EXCEPT ![n] = -1]
    /\ UNCHANGED <<cfg, leader, log, applied, store, acked, lockVars, pollVars, ingVars, joinVars, svcVars>>

\* The leader ships its snapshot to a follower that is behind it; FSM.Restore runs there.
InstallSnapshot(n) ==
    /\ cfg.clustered
    /\ n # leader
    /\ snap[leader].idx > applied[n]
    /\ store' = [store EXCEPT ![n] = FSMRestore(store[n], snap[leader].configs)]
    /\ applied' = [applied EXCEPT ![n] = snap[leader].idx]
    /\ snap' = [snap EXCEPT ![n] = snap[leader]]
    /\ snapPending' = [snapPending EXCEPT ![n] = -1]
    /\ UNCHANGED <<cfg, leader, log, acked, lockVars, pollVars, ingVars, joinVars, svcVars>>

\* A process restart: the store is loaded from disk, then the local snapshot restored.
Restart(n) ==
    /\ n \in ActiveNodes
    /\ cfg.clustered => n # leader
    /\ LET loaded == loadConfigs(store[n]) IN
       store' = [store EXCEPT ![n] =
                    IF snap[n] = NoSnap THEN loaded
                    ELSE FSMRestore(loaded, snap[n].configs)]
    /\ applied' = [applied EXCEPT ![n] = snap[n].idx]
    /\ snapPending' = [snapPending EXCEPT ![n] = -1]
    /\ UNCHANGED <<cfg, leader, log, snap, acked, lockVars, pollVars, ingVars, joinVars, svcVars>>

\* The stores an operation of node n that changes the config map can be in when it
\* reaches saveConfigs: a request on a single node, the FSM's next entry in a cluster.
Saving(n) ==
    IF cfg.clustered
    THEN IF /\ applied[n] < Len(log)
            /\ log[applied[n] + 1].type \in {"create_index", "delete_index", "update_index"}
            /\ FSMApply(store[n], log[applied[n] + 1]).err = "ok"
         THEN {FSMApply(store[n], log[applied[n] + 1]).st}
         ELSE {}
    ELSE {r.st : r \in {r \in {CreateIndex(store[n], Config(id, pk, {"val"})) :
                                  id \in IndexIds, pk \in PrimaryKeys}
                             \cup {DeleteIndex(store[n], id) : id \in IndexIds}
                             \cup {UpdateIndex(store[n], id, Config(id, "id", {"val"})) :
                                     id \in IndexIds} :
                           r.err = "ok"}}

\* The process dies while saveConfigs is inside os.WriteFile, and starts again.
CrashInSave(n) ==
    /\ n \in ActiveNodes
    /\ cfg.clustered => n # leader
    /\ \E st \in Saving(n) :
          LET loaded == loadConfigs([st EXCEPT !.configFile = TornFile]) IN
          store' = [store EXCEPT ![n] =
                       IF snap[n] = NoSnap THEN loaded
                       ELSE FSMRestore(loaded, snap[n].configs)]
    /\ applied' = [applied EXCEPT ![n] = snap[n].idx]
    /\ snapPending' = [snapPending EXCEPT ![n] = -1]
    /\ UNCHANGED <<cfg, leader, log, snap, acked, lockVars, pollVars, ingVars, joinVars, svcVars>>

Init ==
    /\ cfg \in [clustered : BOOLEAN, autoCreate : BOOLEAN]
    /\ NewCluster
    /\ NoThreads
    /\ FullSyncDone
    /\ NoIngress
    /\ NoJoin
    /\ NoService

Next ==
    \/ \E n \in ActiveNodes : HTTPAddDocuments(n)
    \/ \E n \in ActiveNodes : HTTPDeleteDocuments(n)
    \/ \E n \in ActiveNodes : HTTPDeleteDocument(n)
    \/ \E n \in ActiveNodes : HTTPUpdateDocument(n)
    \/ \E n \in ActiveNodes : HTTPCreateIndex(n)
    \/ \E n \in ActiveNodes : HTTPDeleteIndex(n)
    \/ \E n \in ActiveNodes : HTTPUpdateIndex(n)
    \/ \E n \in ActiveNodes : IngressDocuments(n)
    \/ \E n \in ActiveNodes : IngressDeletes(n)
    \/ \E n \in Nodes : FSMApplyNext(n)
    \/ LeaderChange
    \/ \E n \in Nodes : SnapshotBegin(n)
    \/ \E n \in Nodes : SnapshotPersist(n)
    \/ \E n \in Nodes : InstallSnapshot(n)
    \/ \E n \in Nodes : Restart(n)

Spec == Init /\ [][Next]_vars

\* The same with crashes in the middle of a save.
NextCrash ==
    \/ Next
    \/ \E n \in Nodes : CrashInSave(n)

SpecCrash == Init /\ [][NextCrash]_vars

\* A cluster in which every node knows the leader; a client sends one request.
InitForward ==
    /\ cfg = [clustered |-> TRUE, autoCreate |-> FALSE]
    /\ NewCluster
    /\ NoThreads
    /\ FullSyncDone
    /\ NoIngress
    /\ NoJoin
    /\ NoService

NextForward ==
    \/ \E n \in Nodes : Elected(n)
    \/ \E n \in Nodes : Learns(n)
    \/ \E n \in Nodes : ClientRequest(n)
    \/ Relay
    \/ Unavailable
    \/ LeaderHandles
    \/ ForwardTimeout

SpecForward == InitForward /\ [][NextForward]_vars

(***************************************************************************)
(* The replicas alone: commands reach the stores through the log only.     *)
(***************************************************************************)
Commands ==
    {CreateIndexCmd(Config("x", "id", {})),
     DeleteIndexCmd("x"),
     AddDocumentsCmd("x", <<Doc("a", "a")>>),
     AutoCreateAndAddDocumentsCmd("x", "id", <<Doc("a", "b")>>)}

Propose(n) == \E cmd \in Commands : Commit(n, cmd, MaxEntries) /\ UNCHANGED fwdVars

InitReplicas ==
    /\ cfg = [clustered |-> TRUE, autoCreate |-> TRUE]
    /\ NewCluster
    /\ NoThreads
    /\ FullSyncDone
    /\ NoIngress
    /\ NoJoin
    /\ NoService

NextReplicas ==
    \/ \E n \in Nodes : Propose(n)
    \/ \E n \in Nodes : FSMApplyNext(n)
    \/ LeaderChange
    \/ \E n \in Nodes : SnapshotBegin(n)
    \/ \E n \in Nodes : SnapshotPersist(n)
    \/ \E n \in Nodes : InstallSnapshot(n)
    \/ \E n \in Nodes : Restart(n)

SpecReplicas == InitReplicas /\ [][NextReplicas]_vars

(***************************************************************************)
(* The FSM alone under every kind of command: the leader commits and       *)
(* applies, the follower applies what is committed.                        *)
(***************************************************************************)
FSMCommands ==
    {CreateIndexCmd(Config("x", "id", {"val"})),
     CreateIndexCmd(Config("x", "val", {})),
     UpdateIndexCmd(Config("x", "val", {"id"})),
     DeleteIndexCmd("x"),
     [type |-> "delete_document", data |-> [index_id |-> "x", document_id |-> "a"]],
     [type |-> "compact_index", data |-> [index_id |-> "x", document_id |-> "a"]],
     [type |-> "update_document",
      data |-> [index_id |-> "x", document_id |-> "a", updates |-> [val |-> "b"]]]}
    \cup {AddDocumentsCmd("x", docs) : docs \in Batches \cup {<<Doc("u", "b")>>}}
    \cup {DeleteDocumentsCmd("x", "val:b", {}),
          DeleteDocumentsCmd("x", "", {"a"}),
          DeleteDocumentsCmd("x", "", {})}

ProposeFSM(n) == \E cmd \in FSMCommands : Commit(n, cmd, MaxEntries) /\ UNCHANGED fwdVars

InitFSM ==
    /\ cfg = [clustered |-> TRUE, autoCreate |-> FALSE]
    /\ NewCluster
    /\ NoThreads
    /\ FullSyncDone
    /\ NoIngress
    /\ NoJoin
    /\ NoService

NextFSM ==
    \/ \E n \in Nodes : ProposeFSM(n)
    \/ \E n \in Nodes : FSMApplyNext(n)

SpecFSM == InitFSM /\ [][NextFSM]_vars

(***************************************************************************)
(* Properties.                                                             *)
(***************************************************************************)
DocumentMutation(n) ==
    \/ HTTPAddDocuments(n)
    \/ HTTPUpdateDocument(n)
    \/ HTTPDeleteDocument(n)
    \/ HTTPDeleteDocuments(n)

\* C1: in a clustered deployment, a step of a document handler (add documents,
\* update one, delete one, delete by ids or by filter) on node n changes a store
\* only by committing one command to the log, the store of n becoming what the
\* FSM makes of it with that command; no handler step writes a store otherwise.
C1_MutationsOnlyThroughLog ==
    [][\A n \in Nodes :
          (cfg.clustered /\ DocumentMutation(n)) =>
              \/ store' = store
              \/ /\ Len(log') = Len(log) + 1
                 /\ store' = [store EXCEPT
                                ![n] = FSMApply(store[n], log'[Len(log')]).st]]_vars

\* C2: on the clustered leader, a delivery of the ingress that changes anything
\* is a call of RaftNode.Apply with a 30 s deadline: an add_documents command for
\* a batch of rows, a delete_documents command for a batch of deleted ids.
C2_LeaderDeliveryThroughApply ==
    [][\A n \in Nodes, id \in IndexIds :
          (cfg.clustered /\ leader = n) =>
              /\ \A docs \in {<<Doc("a", "b")>>} :
                    Do(n, handleDocuments(n, id, docs)) =>
                        /\ handleDocuments(n, id, docs).kind = "raft"
                        /\ handleDocuments(n, id, docs).cmd = AddDocumentsCmd(id, docs)
                        /\ handleDocuments(n, id, docs).timeout = 30
              /\ \A ids \in {{"a"}} :
                    Do(n, handleDeletes(n, id, ids)) =>
                        /\ handleDeletes(n, id, ids).kind = "raft"
                        /\ handleDeletes(n, id, ids).cmd = DeleteDocumentsCmd(id, "", ids)
                        /\ handleDeletes(n, id, ids).timeout = 30]_vars

\* C3: in a clustered deployment, a delivery of the ingress on a node that is not
\* the leader changes no store and commits nothing.
C3_FollowerDeliveryIsNoOp ==
    [][\A n \in Nodes :
          (cfg.clustered /\ leader # n /\ (IngressDocuments(n) \/ IngressDeletes(n))) =>
              (store' = store /\ log' = log)]_vars

\* The step in which the FSM of node n applies the log entry at applied'[n].
FSMApplies(n) ==
    \/ FSMApplyNext(n)
    \/ leader = n /\ Len(log') = Len(log) + 1 /\ applied'[n] = Len(log')

\* C4: when the FSM of a node applies an auto_create_and_add_documents entry,
\* afterwards the entry's index exists on that node with the entry's primary
\* key (if it was absent before) and holds the entry's documents.
C4_AutoCreateApplied ==
    [][\A n \in Nodes :
          (FSMApplies(n) /\ log'[applied'[n]].type = "auto_create_and_add_documents") =>
              LET d == log'[applied'[n]].data
                  after == store'[n]
              IN  /\ d.index_id \in after.indexes
                  /\ d.index_id \notin store[n].indexes =>
                        after.configs[d.index_id].primaryKey = d.primary_key
                  /\ \A k \in 1..Len(d.documents) :
                        after.disk[d.index_id].docs[d.documents[k][d.primary_key]]
                            = d.documents[k]]_vars

\* What a replica's store state is to its clients: the set of indexes, their
\* configs and the documents of every index.
Visible(st) ==
    [indexes |-> st.indexes,
     configs |-> st.configs,
     docs |-> [i \in IndexIds |->
                 IF i \in st.indexes THEN st.disk[i].docs ELSE EmptyDocs]]

\* C6: two replicas whose store states are the same, applying the same log
\* entry, end in the same store state and return the same result.
C6_SameStateSameResult ==
    \A a \in Nodes, b \in Nodes, cmd \in Commands :
        Visible(store[a]) = Visible(store[b]) =>
            /\ FSMApply(store[a], cmd).err = FSMApply(store[b], cmd).err
            /\ Visible(FSMApply(store[a], cmd).st) = Visible(FSMApply(store[b], cmd).st)

\* The step in which FSM.Restore runs on node n with the snapshot snap'[n].
Restores(n) == InstallSnapshot(n) \/ (Restart(n) /\ snap[n] # NoSnap)

\* C7: after FSM.Restore of a snapshot on a node, the node's config map is the
\* snapshot's and every index in it has an engine handle: it can be looked up
\* and accepts a document write.
C7_RestoreRebuildsHandles ==
    [][\A n \in Nodes :
          Restores(n) =>
              /\ store'[n].configs = Decode(snap'[n].configs)
              /\ \A i \in IndexIds :
                    store'[n].configs[i] # NoConfig =>
                        /\ GetIndex(store'[n], i) = "ok"
                        /\ AddDocumentsInternal(store'[n], i, <<Doc("a", "a")>>).err
                               = "ok"]_vars

\* C5: a command for which RaftNode.Apply returned nil is not lost to a later
\* leader: once the leader's FSM is past an acknowledged add_documents entry
\* and no later entry deletes the index, the leader's store holds the index
\* and the entry's documents.
C5_AckedNeverLost ==
    \A k \in acked :
        (/\ log[k].type = "add_documents"
         /\ applied[leader] >= k
         /\ \A j \in (k + 1)..Len(log) : log[j].type # "delete_index") =>
            LET d == log[k].data IN
            /\ d.index_id \in store[leader].indexes
            /\ \A i \in 1..Len(d.documents) :
                  store[leader].disk[d.index_id].docs[d.documents[i].id] = d.documents[i]

\* C8: concurrent store operations never deadlock: whenever some thread is
\* inside an operation, some thread inside an operation can take its next step.
C8_NoDeadlock ==
    (\E t \in Threads : thread[t].pc # "idle") =>
        \E t \in Threads : thread[t].pc # "idle" /\ ENABLED Step(t)

\* Two threads contend: one waits in indexLock.Lock() for the lock object that
\* the other holds inside a document operation.
C8_Contention ==
    \E t \in Threads, u \in Threads :
        /\ t # u
        /\ thread[t].pc = "indexLock.Lock"
        /\ held[thread[t].lk] = u
        /\ thread[u].op \in DocumentOps

\* C9: in polling mode after the full sync, a row whose updated_at has moved to
\* v is eventually delivered: the index comes to hold the row at v or later
\* (unless the row is deleted meanwhile).
C9_ChangedRowDelivered ==
    \A r \in Rows, v \in 1..(2 * MaxChanges) :
        (live[r] /\ updatedAt[r] = v) ~> (indexed[r] >= v \/ ~live[r])

\* C10: with auto_triggers on, the document of a deleted row is eventually
\* deleted from the index.
C10_DeletedRowRemoved ==
    \A r \in Rows : (~live[r]) ~> (indexed[r] = -1)

\* C11: when a full sync sets fullSyncComplete, every row that has been in the
\* source table ever since that full sync began has been handed to onDocuments;
\* and lastID moves past a batch only in the step that has delivered the batch.
C11_FullSyncDeliversEveryRow ==
    [][/\ (FullSyncCompleted \/ (StartListen /\ ~loadState)) =>
              stable' \subseteq delivered'
       /\ lastID' > lastID => fetched \subseteq delivered']_vars

\* C12: once Stop has returned, every task of the ingress has finished: the
\* pollLoop goroutine, the listener's two goroutines and every goroutine that
\* processes a batch of notifications (so nothing is delivered afterwards).
C12_StopAwaitsEveryTask ==
    (status = "Stopped" /\ iMu = "none") =>
        /\ pollLoop \in {"none", "done"}
        /\ ~listenLoop
        /\ ~batchProcessor
        /\ inflight = 0

\* C13: an ingress in the Error status keeps that status until Stop is called.
C13_ErrorUntilStop ==
    [][(status = "Error" /\ status' # "Error") => iMu = "Stop"]_vars

\* A step that hands documents or deleted ids to the index.
Delivery ==
    \/ OnDocuments
    \/ IncrementalSync
    \/ ProcessBatch
    \/ (StartListen /\ ~loadState)

\* C14: the status becomes Paused only from Running; while it is Paused and Stop
\* has not been called, a step keeps it Paused unless it is Resume, and delivers
\* nothing to the index; Resume acts only on a Paused ingress.
C14_PausedUntilResume ==
    [][/\ (status # "Paused" /\ status' = "Paused") => status = "Running"
       /\ (status = "Paused" /\ iMu # "Stop") =>
              /\ status' = "Paused" \/ Resume
              /\ ~Delivery
       /\ Resume => status = "Paused"]_vars

\* C15: after Resync was called in Running, Syncing or Paused, whenever the poll
\* loop waits for its next tick and no full sync has begun from the start of the
\* table since, the poller and the stats say that the full sync is to be done, from
\* the start of the table.
C15_ResyncSchedulesFullSync ==
    (resyncPending /\ pollLoop = "select") =>
        /\ ~fullSyncComplete
        /\ lastID = 0
        /\ ~statsFullSyncComplete

\* C16: when the FSM of a node applies an add_documents entry of which some
\* document has no value at the primary key of the index, the command returns
\* an error (it is not acknowledged) and the documents of the node's indexes are
\* what they were: none of the entry's documents is stored.
C16_AddDocumentsAllOrNothing ==
    [][\A n \in Nodes :
          (FSMApplies(n) /\ log'[applied'[n]].type = "add_documents") =>
              LET d == log'[applied'[n]].data
                  config == store[n].configs[d.index_id]
              IN  (/\ d.index_id \in store[n].indexes
                   /\ config # NoConfig
                   /\ \E k \in 1..Len(d.documents) :
                         d.documents[k][config.primaryKey] = Null) =>
                      /\ FSMApply(store[n], log'[applied'[n]]).err # "ok"
                      /\ applied'[n] \notin acked'
                      /\ store'[n].disk = store[n].disk]_vars

\* A node has applied, last, an add_documents entry whose first document has an id
\* and whose second has none, to an index that exists with primary key "id".
C16_RejectedBatch ==
    \E n \in Nodes :
        /\ applied[n] >= 2
        /\ log[applied[n]] = AddDocumentsCmd("x", <<Doc("a", "a"), Doc(Null, "b")>>)
        /\ log[applied[n] - 1].type = "create_index"
        /\ "x" \in store[n].indexes
        /\ store[n].configs["x"].primaryKey = "id"
        /\ store[n].disk["x"].docs["a"] = NoDoc

\* What DeleteDocuments is to do to the documents dm of an index.
DeleteDocumentsExpected(dm, filter, ids) ==
    IF ids # {} THEN [d \in DocIDs |-> IF d \in ids THEN NoDoc ELSE dm[d]]
    ELSE IF filter # ""
         THEN [d \in DocIDs |-> IF Matches(filter, dm[d]) THEN NoDoc ELSE dm[d]]
    ELSE dm

\* C17: deleting documents of an index with ids deletes exactly those; with no
\* ids and a filter it deletes every document that matches, however many pages
\* of hits there are, and no other; with neither it is an error and nothing
\* changes.  This is so of the delete_documents command in every store state and
\* of every step of the DELETE /indexes/:id/documents handler.
C17_DeleteDocumentsExact ==
    [][\A n \in Nodes, id \in IndexIds, filter \in {""} \cup Filters, ids \in {{}, {"a"}} :
          /\ id \in store[n].indexes =>
                LET r == FSMApply(store[n], DeleteDocumentsCmd(id, filter, ids)) IN
                /\ r.st.disk[id].docs =
                       DeleteDocumentsExpected(store[n].disk[id].docs, filter, ids)
                /\ (ids = {} /\ filter = "") => r.err # "ok"
          /\ (id \in store[n].indexes /\ Do(n, DeleteDocuments(n, id, filter, ids))) =>
                /\ store'[n].disk[id].docs =
                       DeleteDocumentsExpected(store[n].disk[id].docs, filter, ids)
                /\ (ids = {} /\ filter = "") =>
                       DeleteDocuments(n, id, filter, ids).code = 400]_vars

\* C18: after the FSM of a node has applied a create_index or update_index entry
\* without error, the config stored under the entry's id has that id and the
\* entry's primary key and exclude attributes.
C18_ConfigStoredAsGiven ==
    [][\A n \in Nodes :
          (/\ FSMApplies(n)
           /\ log'[applied'[n]].type \in {"create_index", "update_index"}
           /\ FSMApply(store[n], log'[applied'[n]]).err = "ok") =>
              LET d == log'[applied'[n]].data IN
              store'[n].configs[d.id] = Config(d.id, d.primaryKey, d.excludeAttributes)]_vars

\* An index exists in a store if the store lists a config or holds a handle for it.
Exists(st, id) == id \in st.indexes \/ st.configs[id] # NoConfig

\* C19: when the FSM of a node applies a create_index entry for an id that exists
\* in the node's store, the command returns an error and the store stays as it
\* is: config, handle and documents.
C19_CreateExistingFails ==
    [][\A n \in Nodes :
          (/\ FSMApplies(n)
           /\ log'[applied'[n]].type = "create_index"
           /\ Exists(store[n], log'[applied'[n]].data.id)) =>
              /\ FSMApply(store[n], log'[applied'[n]]).err # "ok"
              /\ store'[n] = store[n]]_vars

\* C20: every document of an add_documents entry appended to the log has a value
\* at the primary key the leader's config gives the target index, and every
\* document of an auto_create_and_add_documents entry has one at the entry's
\* primary key.
C20_IdsAssignedBeforeAppend ==
    [][Len(log') = Len(log) + 1 =>
          LET e == log'[Len(log')] IN
          /\ (e.type = "add_documents"
                 /\ store[leader].configs[e.data.index_id] # NoConfig) =>
                \A k \in 1..Len(e.data.documents) :
                    e.data.documents[k][store[leader].configs[e.data.index_id].primaryKey]
                        # Null
          /\ e.type = "auto_create_and_add_documents" =>
                \A k \in 1..Len(e.data.documents) :
                    e.data.documents[k][e.data.primary_key] # Null]_vars

\* The command types FSM.Apply has a case for.
KnownTypes ==
    {"create_index", "delete_index", "update_index", "add_documents",
     "delete_document", "delete_documents", "update_document"}

\* C21: when the FSM of a node applies an entry whose type it has no case for, the
\* result is the error "unknown command type" and the node's store stays as it
\* is; and whatever a node has applied, while entries remain its FSM can apply
\* the next one.
C21_UnknownTypeRefused ==
    /\ [](\A n \in Nodes : applied[n] < Len(log) => ENABLED FSMApplyNext(n))
    /\ [][\A n \in Nodes :
             (FSMApplies(n) /\ log'[applied'[n]].type \notin KnownTypes) =>
                 /\ FSMApply(store[n], log'[applied'[n]]).err = "unknown command type"
                 /\ applied'[n] \notin acked'
                 /\ store'[n] = store[n]]_vars

\* A node has applied an entry of an unknown type and, after it, an entry that
\* created the index x.
C21_AppliedPastUnknown ==
    \E n \in Nodes :
        /\ applied[n] >= 2
        /\ log[applied[n] - 1].type \notin KnownTypes
        /\ log[applied[n]].type = "create_index"
        /\ "x" \in store[n].indexes

C23_AddDocumentsIdempotent ==
    \A n \in Nodes, cmd \in FSMCommands :
        cmd.type = "add_documents" =>
            LET once == FSMApply(store[n], cmd)
                twice == FSMApply(once.st, cmd)
            IN  /\ twice.st = once.st
                /\ twice.err = once.err

\* A node has applied the same add_documents entry twice in a row and holds its
\* document.
C23_AppliedTwice ==
    \E n \in Nodes :
        /\ applied[n] = 3
        /\ log[2] = AddDocumentsCmd("x", <<Doc("a", "a")>>)
        /\ log[3] = log[2]
        /\ store[n].disk["x"].docs["a"] = Doc("a", "a")

\* The keys of index id that the commands cmds, applied in order from store state
\* st, add and delete: added, the distinct primary keys of the documents of the
\* add commands that succeeded; deleted, the number of keys the delete commands
\* that succeeded were applied to; live, the keys added and not deleted since.
\* Deleting the index starts the count again.
RECURSIVE Tally(_, _, _, _)
Tally(st, cmds, id, t) ==
    IF cmds = <<>> THEN t
    ELSE LET cmd == Head(cmds)
             r == FSMApply(st, cmd)
             ok == r.err = "ok"
             keys == IF ok /\ cmd.type = "add_documents" /\ cmd.data.index_id = id
                     THEN {cmd.data.documents[k][st.configs[id].primaryKey] :
                              k \in 1..Len(cmd.data.documents)}
                     ELSE {}
             gone == IF ~ok THEN {}
                     ELSE IF cmd.type = "delete_document" /\ cmd.data.index_id = id
                          THEN {cmd.data.document_id}
                     ELSE IF cmd.type = "delete_documents" /\ cmd.data.index_id = id
                          THEN IF cmd.data.ids # {} THEN cmd.data.ids
                               ELSE {k \in DocIDs :
                                        Matches(cmd.data.filter, st.disk[id].docs[k])}
                     ELSE {}
             reset == ok /\ cmd.type = "delete_index" /\ cmd.data.id = id
         IN  Tally(r.st, Tail(cmds), id,
                   IF reset THEN [added |-> {}, deleted |-> 0, live |-> {}]
                   ELSE [added |-> t.added \cup keys,
                         deleted |-> t.deleted + Cardinality(gone),
                         live |-> (t.live \cup keys) \ gone])

\* The tally of index id over the entries node n has applied.
Applied(n, id) ==
    Tally(EmptyStore, SubSeq(log, 1, applied[n]), id,
          [added |-> {}, deleted |-> 0, live |-> {}])

\* The ids of the documents node n stores in index id.
Stored(n, id) == {k \in DocIDs : store[n].disk[id].docs[k] # NoDoc}

\* C24 as stated: on every node, for every index, the number of documents stored is
\* the number of distinct primary keys applied by add commands minus the number
\* of keys applied to delete commands.
C24_CountIsAddsMinusDeletes ==
    \A n \in Nodes, id \in IndexIds :
        id \in store[n].indexes =>
            Cardinality(Stored(n, id)) =
                Cardinality(Applied(n, id).added) - Applied(n, id).deleted

\* C24: on every node, for every index, the documents stored are those whose
\* primary key an add command has applied and no delete command has been applied
\* to since; their number is the number of these keys.
C24_StoredAreLiveKeys ==
    \A n \in Nodes, id \in IndexIds :
        id \in store[n].indexes =>
            /\ Stored(n, id) = Applied(n, id).live
            /\ Cardinality(Stored(n, id)) = Cardinality(Applied(n, id).live)

\* A node has applied adds and deletes to an index and still stores a document.
C24_AddedAndDeleted ==
    \E n \in Nodes :
        /\ "x" \in store[n].indexes
        /\ Applied(n, "x").added # {}
        /\ Applied(n, "x").deleted > 0

\* C25: in every store state of every node, restoring the snapshot that
\* fsmSnapshot.Persist writes of that state leaves the config map as it is.
C25_RestoreOfSnapshotIsNoOp ==
    \A n \in Nodes :
        FSMRestore(store[n], Persist(store[n])).configs = store[n].configs

\* A node holds a snapshot that is the one of its present store state, with the
\* config of x in it.
C25_SnapshotOfConfigs ==
    \E n \in Nodes :
        /\ snap[n].idx > 0
        /\ snap[n].configs = Persist(store[n])
        /\ store[n].configs["x"] # NoConfig

\* C26: the auto-join goroutine never sends ClusterJoin to the address the node
\* advertises, whatever Peers lists.
C26_NeverJoinsSelf == advertiseAddr \notin rpcs

\* The loop has passed over the node's own address in Peers and has sent
\* ClusterJoin to another peer.
C26_SkippedSelf ==
    /\ \E i \in 1..Len(peers) : i < peerIdx /\ peers[i] = advertiseAddr
    /\ rpcs # {}

\* C27: a thread that is in indexLock.Lock(), waiting for or taking a per-index
\* lock, holds the store-wide lock neither as writer nor as reader; and no thread
\* holds two per-index locks.
C27_LockOrder ==
    \A t \in Threads :
        /\ thread[t].pc = "indexLock.Lock" => (mu.writer # t /\ t \notin mu.readers)
        /\ Cardinality({k \in LockObjects : held[k] = t}) <= 1

\* A thread waits in indexLock.Lock() for a lock that another thread holds, and
\* holds the store-wide lock in no mode; nobody holds it for writing.
C27_WaitsWithoutMu ==
    \E t \in Threads, u \in Threads :
        /\ t # u
        /\ thread[t].pc = "indexLock.Lock"
        /\ held[thread[t].lk] = u
        /\ mu.writer = "none"
        /\ t \notin mu.readers

\* The threads inside the engine calls of a document mutation on index id.
Mutating(id) ==
    {t \in Threads : thread[t].id = id /\ thread[t].pc \in {"index locked", "engine"}}

\* C28: at most one thread at a time is inside a document mutation on an index,
\* and a thread that is inside one holds the lock the map has for that index,
\* whether it runs an internal operation (FSM, ingress) or a document handler.
C28_OneMutationPerIndex ==
    \A id \in LockedIds :
        /\ Cardinality(Mutating(id)) <= 1
        /\ \A t \in Mutating(id) : lockMap[id] # 0 /\ held[lockMap[id]] = t

\* C29: a thread reads the maps of the store only while it holds the store-wide
\* lock, as reader or writer, and writes them only while it holds it as writer:
\* the lookup of a handle, getIndexLock, and the creation and deletion of an
\* index by the public and by the internal operations.
C29_MapUnderStoreLock ==
    [][\A t \in Threads :
          /\ ReaderBody(t) => t \in mu.readers
          /\ GetIndexLockBody(t) => mu.writer = t
          /\ WriterBody(t) => mu.writer = t
          /\ InternalBody(t) => mu.writer = t]_vars

\* C30: no thread is inside a document mutation with an engine handle that a
\* deletion of the index has closed: an index is not closed under a mutation
\* in progress, and no mutation starts on a handle closed before.
C30_NoMutationOnClosedHandle ==
    \A t \in Threads :
        thread[t].pc \in {"index locked", "engine"} => thread[t].h # "closed"

\* C31: on every node, after startup recovery and after any sequence of create,
\* delete, update, restore and document operations, the index ids that have a
\* config are the ids that have an open engine handle and the ids that have a
\* per-index lock.
C31_ConfigHandleLockAgree ==
    \A n \in Nodes :
        LET configured == {i \in IndexIds : store[n].configs[i] # NoConfig} IN
        /\ configured = store[n].indexes
        /\ configured = store[n].indexLocks

\* C32: after any sequence of Start, Stop, Pause, Resume and Resync calls at most
\* one pollLoop goroutine and at most one listener are running for the ingress.
C32_OnePollerOneListener ==
    /\ orphans.pollLoops + (IF PollLoopRuns THEN 1 ELSE 0) <= 1
    /\ orphans.listeners + (IF ListenerRuns THEN 1 ELSE 0) <= 1

\* C33: in listen mode no received notification is dropped: each one is still in
\* the batch being filled, or with a goroutine that has yet to process it, or has
\* been delivered with success (an upsert of the row, or a delete).
C33_NoNotificationDropped ==
    \A n \in received :
        \/ n \in Range(queue)
        \/ \E w \in 1..MaxInflight : n \in Range(workers[w].ops)
        \/ \E h \in handled : h.note = n

\* C34: in listen mode a notification that is delivered after a later notification
\* for the same primary key was delivered leaves the document as the later one
\* left it.
C34_LaterEffectStands ==
    [][\A h \in handled' \ handled :
          (/\ h.delivered
           /\ \E m \in handled : /\ m.delivered
                                 /\ m.note.id = h.note.id
                                 /\ m.note.seq > h.note.seq)
          => indexed'[h.note.id] = indexed[h.note.id]]_vars

\* C35: a Start in polling mode after a Stop takes up the cursor where the last
\* delivered batch left it: the poller starts with the same lastID and the same
\* fullSyncComplete that the poller had when the ingress stopped.
C35_ResumesFromCursor ==
    [][(status = "Stopped" /\ pollLoop' = "initial")
          => (lastID' = lastID /\ fullSyncComplete' = fullSyncComplete)]_vars

\* C36: a poll that fails, as it does when the connection to the source database
\* is lost, puts the ingress into Error only after maxAttempts failed attempts to
\* connect.
C36_ErrorAfterFailedAttempts ==
    [][(PollFailed /\ status' = "Error") => failedConnects' >= maxAttempts]_vars

\* C37: at every instant, after a crash in the middle of a save too, configs.json
\* holds a complete config map, and it is the config map the node has in memory.
C37_ConfigFileWholeAndCurrent ==
    \A n \in Nodes :
        /\ ~store[n].configFile.torn
        /\ Decode(store[n].configFile.data) = store[n].configs

\* C38: a mutation request is relayed a bounded number of times: no more often than
\* there are nodes in the cluster.
C38_RelaysBounded == Len(path) - 1 <= Cardinality(Nodes)

\* C39: the joiner's goroutine ends: it goes over the peer list at most MaxRetries
\* times, ends at the first ClusterJoin that succeeds, and once it has joined or
\* has given up after the last round it contacts no peer and changes nothing.
C39_JoinerTerminates ==
    /\ [](attempt < MaxRetries)
    /\ [](joiner = "failed" => (attempt = MaxRetries - 1 /\ peerIdx > Len(peers)))
    /\ [][(joiner \in {"joined", "failed"}) => (joinVars' = joinVars /\ clusterVars' = clusterVars)]_vars
    /\ [][(joiner = "loop" /\ joiner' = "joined")
             => (peerIdx <= Len(peers) /\ peers[peerIdx] \in rpcs' /\ attempt' = attempt)]_vars
    /\ <>(joiner # "loop")

\* The goroutine has given up after the last round, in which a ClusterJoin failed.
C39_GaveUpAfterLastRound ==
    /\ joiner = "failed"
    /\ attempt = MaxRetries - 1
    /\ rpcs # {}

=============================================================================
